---- MODULE Spec2Model ----
(***************************************************************************)
(* Spine Database API: the diff-staged mapping (add / update / commit /    *)
(* rollback over shadow storage), its integrity checks and its id          *)
(* allocator (the NextId row).                                             *)
(*                                                                         *)
(* Spec      : one staging mapping instance working on a backing store     *)
(*             that a second, freshly opened instance reads.               *)
(* SpecAdd   : the add entry points of one instance, in every mode, on     *)
(*             every kind.                                                 *)
(* SpecAlloc : two mapping instances running the steps of an add call      *)
(*             against the same NextId row, interleaved.                   *)
(***************************************************************************)
EXTENDS Integers, Sequences, FiniteSets, TLC

\* ---------------------------------------------------------------- bounds
MaxBatch == 2   \* longest batch handed to one add / update call
MaxId == 3      \* ids are allocated while the first id of a call is <= MaxId
MaxOps == 3     \* calls issued in one behaviour of Spec
MaxAdds == 2    \* calls issued in one behaviour of SpecAdd
MaxCalls == 2   \* add calls issued by each writer in one behaviour of SpecAlloc

\* ------------------------------------------------------------ data model
\* The kinds of item the model stages.  "alternative" goes through the same
\* adder pattern as the other kinds, with check_alternative as its check.
Kinds == {"object_class", "object", "parameter_definition", "parameter_value_list", "alternative"}

\* Kinds whose names are unique over the whole table (not per class).
GloballyUnique == {"alternative", "object_class", "parameter_value_list"}

\* Kinds whose wide item is stored as one narrow row per list element.
WideKinds == {"parameter_value_list"}

\* None, for ids and counters (Python's None / SQL NULL; 0 is falsy as well).
None == 0

\* entity_class_type ids: 1 is "object", 2 is "relationship".
object_class_type == 1
relationship_class_type == 2

\* entity_type ids: 1 is "object", 2 is "relationship".
object_entity_type == 1
relationship_entity_type == 2

Values == {"x", "y"}

\* A candidate item (a kwargs dict).  type_id = None means the key is absent.
Item(name, cls, vl, tid) == [name |-> name, cls |-> cls, value_list |-> vl, type_id |-> tid]

ItemsOf(k) ==
  CASE k = "object_class" ->
         {Item("a", None, <<>>, None), Item("b", None, <<>>, None),
          Item("", None, <<>>, None), Item("a", None, <<>>, relationship_class_type)}
    [] k = "alternative" ->
         {Item("Base", None, <<>>, None), Item("a", None, <<>>, None)}
    [] k = "object" ->
         {Item("a", 1, <<>>, None), Item("a", 2, <<>>, None), Item("b", 1, <<>>, None)}
    [] k = "parameter_definition" ->
         {Item("a", 1, <<>>, None), Item("b", 1, <<>>, None), Item("a", None, <<>>, None),
          Item("a", 2, <<>>, None)}
    [] k = "parameter_value_list" ->
         {Item("a", None, <<"x">>, None), Item("b", None, <<"x", "y">>, None),
          Item("b", None, <<>>, None), Item("a", None, <<"x", "x">>, None)}

SeqsUpTo(S, n) == UNION {[1..m -> S] : m \in 0..n}

\* A narrow row of a table (original or shadow).
Row(id, name, cls, idx, val) == [id |-> id, name |-> name, cls |-> cls, idx |-> idx, val |-> val]

IdsOf(rows) == {r.id : r \in rows}

MaxOf(S) == CHOOSE m \in S : \A x \in S : x <= m

\* ------------------------------------------------------------- variables
VARIABLES
  orig,             \* original tables: kind -> set of rows (committed)
  shadow,           \* diff tables of the staging instance: kind -> set of rows
  next_id,          \* the persisted NextId row: kind -> counter (None if unset)
  added_item_id,    \* new_item_id / added_item_id: kind -> set of ids
  updated_item_id,  \* kind -> set of ids
  dirty_item_id,    \* kind -> set of ids
  removed_item_id,  \* kind -> set of ids
  transaction,      \* _transaction: "None", "active" or "inactive"
  commit_id,        \* _commit_id of the running transaction
  commit_table,     \* rows of the commit table: [id, comment, durable]
  undo,             \* shadow tables at the start of the running transaction
  session_view,     \* merged view of every kind at the start of the running transaction
  last,             \* the last call and what it returned
  nops,             \* calls issued so far
  writer,           \* SpecAlloc: writer -> position and locals of its running add call
  row_lock,         \* SpecAlloc: the writer whose flush holds the NextId row, or "free"
  sq,               \* memoized <kind>_sq of the staging instance: kind -> view or NotBuilt
  tables,           \* SpecFilter: committed rows of the tables the value filters read
  diff_tables,      \* SpecFilter: rows staged by the filtered mapping instance
  memo,             \* SpecFilter: memoized views of the filtered instance: attribute -> view or NotBuilt
  maker,            \* SpecFilter: the installed _make_<view> of every overridable view
  db                \* rows and NextId counters of the tables filled by the checked adds of one item

vars == <<orig, shadow, next_id, added_item_id, updated_item_id, dirty_item_id,
          removed_item_id, transaction, commit_id, commit_table, undo, session_view, last, nops, writer, row_lock,
          sq, tables, diff_tables, memo, maker, db>>

\* The filtered mapping instance of SpecFilter and the store of the checked
\* adds of one item are left alone.
FilterUnchanged == UNCHANGED <<tables, diff_tables, memo, maker, db>>

\* --------------------------------------------------------- the merged view
\* Rows a query over table k returns through the staging instance: shadow
\* rows, union the original rows whose id is neither dirty nor removed.
MergedRows(k) ==
  shadow[k] \cup {r \in orig[k] : r.id \notin (dirty_item_id[k] \cup removed_item_id[k])}

\* Rows a query over table k returns through a freshly opened instance: its
\* shadow storage and tracked sets are empty.
FreshRows(k) == orig[k]

\* GROUP_CONCAT(value) over the rows of one (id, name) group, in value_index
\* order.
RECURSIVE GroupConcat(_, _, _)
GroupConcat(rows, id, name) ==
  LET mine == {r \in rows : r.id = id /\ r.name = name}
  IN IF mine = {} THEN <<>>
     ELSE LET lo == CHOOSE r \in mine : \A s \in mine : r.idx <= s.idx
          IN <<lo.val>> \o GroupConcat(rows \ {lo}, id, name)

\* The items of kind k that a set of rows holds: one per row for the narrow
\* kinds, one per (id, name) group for the wide kinds.  An id without any row
\* yields no item.
WideItems(k, rows) ==
  IF k \in WideKinds
  THEN {[id |-> r.id, name |-> r.name, cls |-> r.cls,
         value_list |-> GroupConcat(rows, r.id, r.name)] : r \in rows}
  ELSE {[id |-> r.id, name |-> r.name, cls |-> r.cls, value_list |-> <<>>] : r \in rows}

View(k) == WideItems(k, MergedRows(k))

FreshView(k) == WideItems(k, FreshRows(k))

\* object_class_list(id_list=...), ... : the items of the view with these ids.
item_list(k, rows, id_list) == {it \in WideItems(k, rows) : it.id \in id_list}

\* ------------------------------------------------------- memoized views
\* self._<view>_sq = None: the view has not been built.
NotBuilt == [built |-> FALSE, hidden |-> {}, q |-> <<>>]

\* Names of the tables that writes and overrides hand to _clear_subqueries.
TableNames ==
  Kinds \cup {"entity", "entity_class", "parameter_value", "scenario", "scenario_alternative"}

\* The views whose maker can be overridden, and the views built from them.
Overridable == {"entity_sq", "entity_class_sq", "parameter_definition_sq", "parameter_value_sq"}

Dependent == {"object_parameter_value_sq", "relationship_parameter_value_sq"}

SqAttrs == Overridable \cup Dependent

\* The views that read view x when they are built by their default maker.
DependsOn(x) ==
  CASE x = "entity_sq" -> {"parameter_value_sq"} \cup Dependent
    [] x = "entity_class_sq" -> {"parameter_definition_sq", "parameter_value_sq"} \cup Dependent
    [] x = "parameter_definition_sq" -> Dependent
    [] x = "parameter_value_sq" -> Dependent

\* The table a view selects from.
TableOf(x) ==
  CASE x = "entity_sq" -> "entity"
    [] x = "entity_class_sq" -> "entity_class"
    [] x = "parameter_definition_sq" -> "parameter_definition"
    [] x = "parameter_value_sq" -> "parameter_value"

\* The tables a view built by the default makers selects from.
TablesOf(v) ==
  {TableOf(x) : x \in {x \in Overridable : v = x \/ v \in DependsOn(x)}}
  \cup (IF v \in Dependent THEN {"alternative"} ELSE {})

\* What _make_table_to_sq_attr() returns: for every table, the attributes of
\* the views that select from it (the <kind>_sq attribute of the staging
\* instance is named by its kind).
make_table_to_sq_attr ==
  [t \in TableNames |->
     (IF t \in Kinds THEN {t} ELSE {}) \cup {v \in SqAttrs : t \in TablesOf(v)}]

\* self._table_to_sq_attr = {}: the constructor sets the reverse index to the
\* empty dict and nothing assigns it afterwards, so the lookup
\* self._table_to_sq_attr.get(table, []) yields no attribute for any table.
table_to_sq_attr == [t \in TableNames |-> {}]

\* _clear_subqueries(*tablenames): every attribute the reverse index lists
\* for one of the tables is set to None.
clear_subqueries(m, tablenames) ==
  [a \in DOMAIN m |->
     IF \E t \in tablenames : a \in table_to_sq_attr[t] THEN NotBuilt ELSE m[a]]

\* _subquery(tablename) of the staging instance: the merged query, built with
\* the dirty and removed ids of the moment it is built.
subquery(k) ==
  [built |-> TRUE, hidden |-> dirty_item_id[k] \cup removed_item_id[k], q |-> <<>>]

\* The <kind>_sq property: the view is built on the first read and the
\* memoized one is returned afterwards.
sq_property(m, k) == IF m[k].built THEN m ELSE [m EXCEPT ![k] = subquery(k)]

\* Rows that executing a built view of table k returns.
SqRows(k, view) == shadow[k] \cup {r \in orig[k] : r.id \notin view.hidden}

\* ------------------------------------------------------ integrity checks
\* A lookup of current state: a set of <<key, id>> pairs (a dict).  The key
\* is <<class id, name>>; kinds with globally unique names use class None.
Key(k, item) ==
  IF k \in {"object", "parameter_definition"} THEN <<item.cls, item.name>> ELSE <<None, item.name>>

InDict(d, key) == \E p \in d : p[1] = key

Lookup(d, key) == (CHOOSE p \in d : p[1] = key)[2]

Ok == [res |-> "ok", id |-> None]

IntegrityError(id) == [res |-> "SpineIntegrityError", id |-> id]

KeyError == [res |-> "KeyError", id |-> None]

check_alternative_without_id(item, current_items) ==
  IF InDict(current_items, <<None, item.name>>)
  THEN IntegrityError(None)
  ELSE Ok

check_alternative(item, current_items) ==
  IF InDict(current_items, <<None, item.name>>)
  THEN IntegrityError(Lookup(current_items, <<None, item.name>>))
  ELSE Ok

\* check_scenario and check_tool: the name must be given and not be taken.
check_scenario(item, current_items) ==
  IF InDict(current_items, <<None, item.name>>)
  THEN IntegrityError(Lookup(current_items, <<None, item.name>>))
  ELSE Ok

check_tool(item, current_items) ==
  IF InDict(current_items, <<None, item.name>>)
  THEN IntegrityError(Lookup(current_items, <<None, item.name>>))
  ELSE Ok

check_object_class(item, current_items, oc_type) ==
  IF item.name = "" THEN IntegrityError(None)
  ELSE IF item.type_id # None /\ item.type_id # oc_type
  THEN \* id=current_items[name] is evaluated while building the error
       IF InDict(current_items, <<None, item.name>>)
       THEN IntegrityError(Lookup(current_items, <<None, item.name>>))
       ELSE KeyError
  ELSE IF InDict(current_items, <<None, item.name>>)
  THEN IntegrityError(Lookup(current_items, <<None, item.name>>))
  ELSE Ok

\* A check_object that does not look at current_items.
check_object_without_names(item, current_items, class_ids, object_entity_type_id) ==
  IF item.name = "" THEN IntegrityError(None)
  ELSE IF item.type_id # None /\ item.type_id # object_entity_type_id THEN KeyError
  ELSE IF item.cls \notin class_ids THEN IntegrityError(None)
  ELSE Ok

check_object(item, current_items, class_ids, object_entity_type_id) ==
  IF item.name = "" THEN IntegrityError(None)
  ELSE IF item.type_id # None /\ item.type_id # object_entity_type_id
  THEN \* id=current_items[name], in a dict keyed by (class_id, name)
       IF InDict(current_items, <<None, item.name>>)
       THEN IntegrityError(Lookup(current_items, <<None, item.name>>))
       ELSE KeyError
  ELSE IF item.cls \notin class_ids THEN IntegrityError(None)
  ELSE IF InDict(current_items, <<item.cls, item.name>>)
  THEN IntegrityError(Lookup(current_items, <<item.cls, item.name>>))
  ELSE Ok

check_parameter_definition(item, current_items, entity_class_ids) ==
  IF item.name = "" THEN IntegrityError(None)
  ELSE IF item.cls = None THEN IntegrityError(None)
  ELSE IF item.cls \notin entity_class_ids THEN IntegrityError(None)
  ELSE IF InDict(current_items, <<item.cls, item.name>>)
  THEN IntegrityError(Lookup(current_items, <<item.cls, item.name>>))
  ELSE Ok

check_wide_parameter_value_list(wide_item, current_items) ==
  IF InDict(current_items, <<None, wide_item.name>>)
  THEN IntegrityError(Lookup(current_items, <<None, wide_item.name>>))
  ELSE IF Len(wide_item.value_list) # Cardinality({wide_item.value_list[i] : i \in DOMAIN wide_item.value_list})
  THEN IntegrityError(None)
  ELSE Ok

check_item(k, item, current_items, entity_class_ids) ==
  CASE k = "object_class" -> check_object_class(item, current_items, object_class_type)
    [] k = "object" -> check_object(item, current_items, entity_class_ids, object_entity_type)
    [] k = "alternative" -> check_alternative(item, current_items)
    [] k = "parameter_definition" -> check_parameter_definition(item, current_items, entity_class_ids)
    [] k = "parameter_value_list" -> check_wide_parameter_value_list(item, current_items)

\* The lookup a batch check starts from: the keys and ids of the merged view.
CurrentItems(k, rows) == {<<Key(k, it), it.id>> : it \in WideItems(k, rows)}

\* check_<kind>s_for_insert: checks the items of a batch in order.  An item
\* that passes is entered in the lookup (without an id) for the items after
\* it.  strict: the first violation raises.  Otherwise every violation is
\* logged (its conflicting id, or None) and the items that pass are kept.
RECURSIVE check_for_insert(_, _, _, _, _, _, _)
check_for_insert(k, batch, strict, current_items, entity_class_ids, checked, log) ==
  IF batch = <<>> THEN [raised |-> "none", checked |-> checked, log |-> log]
  ELSE LET item == Head(batch)
           r == check_item(k, item, current_items, entity_class_ids)
       IN CASE r.res = "ok" ->
                 check_for_insert(k, Tail(batch), strict,
                                  current_items \cup {<<Key(k, item), None>>},
                                  entity_class_ids, Append(checked, item), log)
            [] r.res = "KeyError" ->
                 [raised |-> "KeyError", checked |-> <<>>, log |-> <<>>]
            [] r.res = "SpineIntegrityError" /\ strict ->
                 [raised |-> "SpineIntegrityError", checked |-> <<>>, log |-> <<>>]
            [] OTHER ->
                 check_for_insert(k, Tail(batch), strict, current_items,
                                  entity_class_ids, checked, Append(log, r.id))

\* ---------------------------------------------------------- id allocator
\* The first id of an add call: the persisted counter if it is set, else
\* max(id of the original table) + 1, or 1 for an empty table.
first_id_from_one(counter, orig_rows) ==
  IF counter # None THEN counter ELSE 1

first_id(counter, orig_rows) ==
  IF counter # None THEN counter
  ELSE LET max_id == IF orig_rows = {} THEN None ELSE MaxOf(IdsOf(orig_rows))
       IN IF max_id # None THEN max_id + 1 ELSE 1

\* The narrow rows of one checked item under its new id.
narrow_rows(k, item, id) ==
  IF k \in WideKinds
  THEN {Row(id, item.name, item.cls, i - 1, item.value_list[i]) : i \in DOMAIN item.value_list}
  ELSE {Row(id, item.name, item.cls, 0, "")}

\* item_list of the loop in _add_<kind>s: the items get consecutive ids.
batch_rows(k, checked, id) ==
  UNION {narrow_rows(k, checked[i], id + i - 1) : i \in DOMAIN checked}

\* The value written back to the counter: one past the last id of the call.
next_counter_not_advanced(id, n) == id

next_counter(id, n) == id + n

\* -------------------------------------------------- session (transaction)
\* has_pending_changes(), with an ended transaction still counted as pending.
has_pending_changes_once_started == transaction # "None"

\* has_pending_changes(): self._transaction is not None and is active.
has_pending_changes == transaction = "active"

\* _checked_execute that starts a transaction for every non-empty statement.
checked_execute_always_starting(items) ==
  IF items = {} THEN UNCHANGED <<transaction, commit_id, commit_table, undo, session_view>>
  ELSE LET new == IF commit_table = {} THEN 1 ELSE MaxOf(IdsOf(commit_table)) + 1
       IN /\ transaction' = "active"
          /\ commit_id' = new
          /\ commit_table' = commit_table \cup {[id |-> new, comment |-> "", durable |-> FALSE]}
          /\ undo' = shadow
          /\ session_view' = [k \in Kinds |-> View(k)]

\* _checked_execute(stmt, items): nothing for an empty item list; else the
\* transaction is started if none is pending (which inserts the Commit row
\* with an empty comment), and the statement runs inside it.
checked_execute(items) ==
  IF items = {} THEN UNCHANGED <<transaction, commit_id, commit_table, undo, session_view>>
  ELSE IF has_pending_changes
  THEN UNCHANGED <<transaction, commit_id, commit_table, undo, session_view>>
  ELSE LET new == IF commit_table = {} THEN 1 ELSE MaxOf(IdsOf(commit_table)) + 1
       IN /\ transaction' = "active"
          /\ commit_id' = new
          /\ commit_table' = commit_table \cup {[id |-> new, comment |-> "", durable |-> FALSE]}
          /\ undo' = shadow
          /\ session_view' = [k \in Kinds |-> View(k)]

\* ------------------------------------------------------------------ calls
NoCall == [op |-> "init", api |-> "", kind |-> "", batch |-> <<>>, strict |-> FALSE,
           return_dups |-> FALSE, raised |-> "none", ids |-> {}, ret |-> {}, log |-> <<>>,
           pre |-> {}, comment |-> ""]

\* add_parameters: the deprecated alias of add_parameter_definitions.
add_parameters(strict, return_dups) == [strict |-> FALSE, return_dups |-> FALSE]

\* The strict / return_dups flags that reach add_<kind>s for each entry point.
flags(api, k, strict, return_dups) ==
  CASE api = "add_many" -> [strict |-> strict, return_dups |-> return_dups]
    [] api = "add_parameters" -> add_parameters(strict, return_dups)
    [] api = "add_one" ->
         IF k = "parameter_definition" THEN add_parameters(TRUE, FALSE)
         ELSE [strict |-> TRUE, return_dups |-> FALSE]
    [] api = "get_or_add" ->
         IF k = "parameter_definition" THEN add_parameters(FALSE, TRUE)
         ELSE [strict |-> FALSE, return_dups |-> TRUE]

\* The entry points: add_<kind>s for every kind, add_parameters, and the
\* single-item wrappers add_<kind> and get_or_add_<kind>.
AddCalls ==
  UNION {{[api |-> "add_many", kind |-> k, batch |-> b, strict |-> st, return_dups |-> d] :
            b \in SeqsUpTo(ItemsOf(k), MaxBatch), st \in BOOLEAN, d \in BOOLEAN} : k \in Kinds}
  \cup {[api |-> "add_parameters", kind |-> "parameter_definition", batch |-> b,
         strict |-> st, return_dups |-> d] :
      b \in SeqsUpTo(ItemsOf("parameter_definition"), MaxBatch), st \in BOOLEAN, d \in BOOLEAN}
  \cup UNION {{[api |-> "add_one", kind |-> k, batch |-> <<it>>, strict |-> TRUE,
                return_dups |-> FALSE] : it \in ItemsOf(k)} :
              k \in {"object_class", "parameter_definition"}}
  \cup UNION {{[api |-> "get_or_add", kind |-> k, batch |-> <<it>>, strict |-> FALSE,
                return_dups |-> TRUE] : it \in ItemsOf(k)} :
              k \in {"object_class", "parameter_definition"}}

\* Ids of the conflicting items named by the error log (x.id for x in log if x.id).
dup_ids(log) == {log[i] : i \in DOMAIN log} \ {None}

\* add_<kind>s(*kwargs_list, strict, return_dups), with _add_<kind>s inlined.
Add(c) ==
  LET k == c.kind
      f == flags(c.api, k, c.strict, c.return_dups)
      chk == check_for_insert(k, c.batch, f.strict, CurrentItems(k, MergedRows(k)),
                              IdsOf(MergedRows("object_class")), <<>>, <<>>)
      id == first_id(next_id[k], orig[k])
      n == Len(chk.checked)
      id_list == id .. (id + n - 1)
      rows == batch_rows(k, chk.checked, id)
      returned == IF f.return_dups THEN id_list \cup dup_ids(chk.log) ELSE id_list
      base == [NoCall EXCEPT !.op = "add", !.api = c.api, !.kind = k, !.batch = c.batch,
                             !.strict = c.strict, !.return_dups = c.return_dups,
                             !.pre = View(k)]
  IN /\ nops' = nops + 1
     /\ UNCHANGED <<writer, row_lock>> /\ FilterUnchanged
     /\ IF chk.raised # "none"
        THEN /\ last' = [base EXCEPT !.raised = chk.raised]
             /\ UNCHANGED <<orig, shadow, next_id, added_item_id, updated_item_id,
                            dirty_item_id, removed_item_id, transaction, commit_id,
                            commit_table, undo, session_view, sq>>
        ELSE /\ id + n <= MaxId + 1
             /\ shadow' = [shadow EXCEPT ![k] = @ \cup rows]
             /\ sq' = clear_subqueries(sq, {k})
             /\ checked_execute(rows)
             /\ next_id' = [next_id EXCEPT ![k] = next_counter(id, n)]
             /\ added_item_id' = [added_item_id EXCEPT ![k] = @ \cup id_list]
             /\ UNCHANGED <<orig, updated_item_id, dirty_item_id, removed_item_id>>
             /\ last' = [base EXCEPT !.ids = id_list, !.log = chk.log,
                                     !.ret = item_list(k, MergedRows(k)', returned)]

\* ----------------------------------------------------------------- update
\* Tables that _update_items is called on here: the kinds stored one row per item.
NarrowKinds == Kinds \ WideKinds

\* Ids a caller can name: those of the rows in the original and shadow tables.
KnownIds(k) == IdsOf(orig[k]) \cup IdsOf(shadow[k])

\* _get_items_for_update_and_insert: an item whose id is already in added or
\* updated is updated in the shadow table, any other is inserted there and
\* its id becomes dirty.  The lists keep the order of the batch.
get_items_for_update_and_insert(k, checked_items) ==
  LET InDiff(item) == item.id \in (added_item_id[k] \cup updated_item_id[k])
      NotInDiff(item) == ~InDiff(item)
      items_for_insert == SelectSeq(checked_items, NotInDiff)
  IN [items_for_update |-> SelectSeq(checked_items, InDiff),
      items_for_insert |-> items_for_insert,
      dirty_ids |-> {items_for_insert[i].id : i \in DOMAIN items_for_insert},
      updated_ids |-> {checked_items[i].id : i \in DOMAIN checked_items}]

\* The items of a list, as a set.
ItemSet(items) == {items[i] : i \in DOMAIN items}

\* _do_update_items, the UPDATE: executed for the items for update in order,
\* each on the shadow row with its primary key (no row, no effect).
RECURSIVE do_update_items(_, _)
do_update_items(rows, items_for_update) ==
  IF items_for_update = <<>> THEN rows
  ELSE LET u == Head(items_for_update)
       IN do_update_items({IF r.id = u.id /\ r.idx = u.idx THEN u ELSE r : r \in rows},
                          Tail(items_for_update))

\* _do_update_items, the INSERT: executed for the items for insert in order.
\* The positions of the list whose primary key is that of a shadow row or of
\* an item before it in the list: there the INSERT fails with a DBAPIError.
insert_failures(rows, items_for_insert) ==
  {i \in DOMAIN items_for_insert :
     \/ \E r \in rows : r.id = items_for_insert[i].id /\ r.idx = items_for_insert[i].idx
     \/ \E j \in 1..(i - 1) : /\ items_for_insert[j].id = items_for_insert[i].id
                              /\ items_for_insert[j].idx = items_for_insert[i].idx}

\* _mark_as_dirty(tablename, ids)
mark_as_dirty(dirty, ids) == dirty \cup ids

\* _update_items(tablename, *items): items without integrity check.  The
\* batches drawn in a staging session name each id once, in ascending order.
UpdateItems(k) == {Row(id, "c", None, 0, "") : id \in KnownIds(k)}

Ascending(b) == \A i, j \in DOMAIN b : i < j => b[i].id < b[j].id

\* When the INSERT fails, _update_items raises SpineDBAPIError before the ids
\* are marked; the rows inserted before the failing one stay in the shadow
\* table or not, as the backend executes the statement.
Update(k, items) ==
  LET g == get_items_for_update_and_insert(k, items)
      updated == do_update_items(shadow[k], g.items_for_update)
      failures == insert_failures(updated, g.items_for_insert)
      before == {g.items_for_insert[i] : i \in {j \in DOMAIN g.items_for_insert :
                                                 \A f \in failures : j < f}}
      base == [NoCall EXCEPT !.op = "update", !.kind = k, !.batch = items,
                             !.ids = g.updated_ids, !.pre = View(k)]
  IN /\ nops' = nops + 1
     /\ UNCHANGED <<writer, row_lock>> /\ FilterUnchanged
     /\ checked_execute(ItemSet(items))
     /\ UNCHANGED <<orig, next_id, added_item_id, removed_item_id>>
     /\ IF failures = {}
        THEN /\ shadow' = [shadow EXCEPT ![k] = updated \cup ItemSet(g.items_for_insert)]
             /\ dirty_item_id' = [dirty_item_id EXCEPT ![k] = mark_as_dirty(@, g.dirty_ids)]
             /\ sq' = clear_subqueries(sq, {k})
             /\ updated_item_id' = [updated_item_id EXCEPT ![k] = @ \cup g.dirty_ids]
             /\ last' = [base EXCEPT !.ret = item_list(k, MergedRows(k)', g.updated_ids)]
        ELSE /\ \E kept \in {{}, before} : shadow' = [shadow EXCEPT ![k] = updated \cup kept]
             /\ UNCHANGED <<dirty_item_id, updated_item_id, sq>>
             /\ last' = [base EXCEPT !.raised = "SpineDBAPIError"]

\* ----------------------------------------------------------------- remove
\* remove_items(tablename, ids): the ids are marked as removed and their
\* shadow rows deleted.
Remove(k, ids) ==
  /\ nops' = nops + 1
  /\ UNCHANGED <<writer, row_lock>> /\ FilterUnchanged
  /\ shadow' = [shadow EXCEPT ![k] = {r \in @ : r.id \notin ids}]
  /\ checked_execute(ids)
  /\ removed_item_id' = [removed_item_id EXCEPT ![k] = @ \cup ids]
  /\ sq' = clear_subqueries(sq, {k})
  /\ UNCHANGED <<orig, next_id, added_item_id, updated_item_id, dirty_item_id>>
  /\ last' = [NoCall EXCEPT !.op = "remove", !.kind = k, !.ids = ids, !.pre = View(k)]

\* -------------------------------------------------------- commit, rollback
Comments == {"c", ""}

\* What finalising the transaction makes of the original tables: the staged
\* state, i.e. the merged view of every table.
merge_staged == [k \in Kinds |-> MergedRows(k)]

\* commit.update().where(commit.c.id == self._commit_id).values(comment=comment)
update_commit_without_comment(table, id, comment) == table

update_commit(table, id, comment) ==
  {IF r.id = id THEN [r EXCEPT !.comment = comment] ELSE r : r \in table}

\* self._transaction.commit(): the rows written in the transaction are durable.
transaction_commit(table) == {[r EXCEPT !.durable = TRUE] : r \in table}

\* self._transaction.rollback(): the rows written in the transaction are gone.
transaction_rollback(table) == {r \in table : r.durable}

commit_session(comment) ==
  /\ nops' = nops + 1
  /\ UNCHANGED <<writer, row_lock>> /\ FilterUnchanged
  /\ IF ~has_pending_changes
     THEN /\ last' = [NoCall EXCEPT !.op = "commit", !.comment = comment,
                                    !.raised = "SpineDBAPIError"]
          /\ UNCHANGED <<orig, shadow, next_id, added_item_id, updated_item_id, dirty_item_id,
                         removed_item_id, transaction, commit_id, commit_table, undo,
                         session_view, sq>>
     ELSE /\ commit_table' = transaction_commit(update_commit(commit_table, commit_id, comment))
          /\ transaction' = "inactive"
          /\ orig' = merge_staged
          /\ last' = [NoCall EXCEPT !.op = "commit", !.comment = comment]
          /\ UNCHANGED <<shadow, next_id, added_item_id, updated_item_id, dirty_item_id,
                         removed_item_id, commit_id, undo, session_view, sq>>

rollback_session ==
  /\ nops' = nops + 1
  /\ UNCHANGED <<writer, row_lock>> /\ FilterUnchanged
  /\ IF ~has_pending_changes
     THEN /\ last' = [NoCall EXCEPT !.op = "rollback", !.raised = "SpineDBAPIError"]
          /\ UNCHANGED <<orig, shadow, next_id, added_item_id, updated_item_id, dirty_item_id,
                         removed_item_id, transaction, commit_id, commit_table, undo,
                         session_view, sq>>
     ELSE /\ commit_table' = transaction_rollback(commit_table)
          /\ transaction' = "inactive"
          /\ shadow' = undo
          /\ last' = [NoCall EXCEPT !.op = "rollback"]
          /\ UNCHANGED <<orig, next_id, added_item_id, updated_item_id, dirty_item_id,
                         removed_item_id, commit_id, undo, session_view, sq>>

\* commit_session(comment) that fails after the transaction was started.
\* at = "execute": self.connection.execute(upd) raises; the transaction stays
\* as it is.  at = "commit": the comment is written and
\* self._transaction.commit() raises; whether the Transaction object is still
\* active afterwards, and whether the backend has discarded what the
\* transaction wrote, is left to the library and the backend.  commit_session
\* catches nothing, so the DBAPIError reaches the caller.
FailurePoints == {"execute", "commit"}

commit_session_failing(comment, at) ==
  /\ has_pending_changes
  /\ nops' = nops + 1
  /\ UNCHANGED <<writer, row_lock>> /\ FilterUnchanged
  /\ last' = [NoCall EXCEPT !.op = "commit", !.comment = comment, !.raised = "DBAPIError",
                            !.api = at]
  /\ UNCHANGED <<orig, next_id, added_item_id, updated_item_id, dirty_item_id,
                 removed_item_id, commit_id, undo, session_view, sq>>
  /\ IF at = "execute"
     THEN UNCHANGED <<transaction, commit_table, shadow>>
     ELSE \E still_active \in BOOLEAN : \E discarded \in BOOLEAN :
            /\ transaction' = IF still_active THEN "active" ELSE "inactive"
            /\ commit_table' = IF discarded THEN transaction_rollback(commit_table)
                               ELSE update_commit(commit_table, commit_id, comment)
            /\ shadow' = IF discarded THEN undo ELSE shadow

\* ------------------------------------------- two writers on one NextId row
\* Two mapping instances on the same store, each with its own session and its
\* own diff tables.  An add call of a writer runs the steps of
\* _add_object_classes (the same steps as _add_objects and the other adders)
\* one at a time, interleaved with the steps of the other writer.
Writers == {"w1", "w2"}

AllocKind == "object_class"

\* The steps of a writer's add call leave the staging state of Spec alone.
StagingUnchanged ==
  UNCHANGED <<orig, shadow, added_item_id, updated_item_id, dirty_item_id, removed_item_id,
              transaction, commit_id, commit_table, undo, session_view, last, nops, sq,
              tables, diff_tables, memo, maker, db>>

Idle == [pc |-> "idle", n |-> 0, snap |-> None, id |-> None, pending |-> {}, counter |-> None,
         diff |-> {}, new_item_id |-> {}, returned |-> {}, overlap |-> {}, raised |-> FALSE,
         calls |-> 0]

\* _add_object_classes(*kwargs_list) is entered with a batch of n checked items.
Call(w, n) ==
  /\ writer[w].pc = "idle"
  /\ writer[w].calls < MaxCalls
  /\ writer' = [writer EXCEPT ![w].pc = "read", ![w].n = n, ![w].raised = FALSE,
                              ![w].calls = @ + 1]
  /\ UNCHANGED <<row_lock, next_id>>
  /\ StagingUnchanged

\* next_id_with_lock: next_id = self.session.query(self.NextId).one_or_none().
\* The session reads the committed row; the loaded object keeps the counter
\* it was read with.
ReadRow(w) ==
  /\ writer[w].pc = "read"
  /\ writer' = [writer EXCEPT ![w].pc = "flush", ![w].snap = next_id[AllocKind]]
  /\ UNCHANGED <<row_lock, next_id>>
  /\ StagingUnchanged

\* next_id_with_lock: self.session.flush() writes user and date to the row and
\* so takes the row (it waits while another writer's transaction holds it).
Flush(w) ==
  /\ writer[w].pc = "flush"
  /\ row_lock = "free"
  /\ row_lock' = w
  /\ writer' = [writer EXCEPT ![w].pc = "choose"]
  /\ UNCHANGED next_id
  /\ StagingUnchanged

\* A next_id_with_lock that reads the row again after a failed flush.
FlushFailRetried(w) ==
  /\ writer[w].pc = "flush"
  /\ row_lock \notin {"free", w}
  /\ writer' = [writer EXCEPT ![w].pc = "read"]
  /\ UNCHANGED <<row_lock, next_id>>
  /\ StagingUnchanged

\* next_id_with_lock: the flush fails with DBAPIError while another writer
\* holds the row: self.session.rollback(), then SpineDBAPIError is raised.
FlushFail(w) ==
  /\ writer[w].pc = "flush"
  /\ row_lock \notin {"free", w}
  /\ writer' = [writer EXCEPT ![w] = [@ EXCEPT !.pc = "idle", !.raised = TRUE, !.n = 0,
                                               !.snap = None]]
  /\ UNCHANGED <<row_lock, next_id>>
  /\ StagingUnchanged

\* id = next_id.object_class_id if it is set, else max id + 1 (or 1).
ChooseId(w) ==
  /\ writer[w].pc = "choose"
  /\ writer' = [writer EXCEPT ![w].pc = "insert",
                              ![w].id = first_id(writer[w].snap, orig[AllocKind])]
  /\ UNCHANGED <<row_lock, next_id>>
  /\ StagingUnchanged

\* self.session.bulk_insert_mappings(self.DiffObjectClass, item_list)
BulkInsert(w) ==
  /\ writer[w].pc = "insert"
  /\ writer' = [writer EXCEPT ![w].pc = "write",
                              ![w].pending = writer[w].id .. (writer[w].id + writer[w].n - 1)]
  /\ UNCHANGED <<row_lock, next_id>>
  /\ StagingUnchanged

\* A failed bulk insert that leaves the rows before the failing one staged.
BulkInsertFailKeepingRows(w) ==
  /\ writer[w].pc = "insert"
  /\ row_lock' = "free"
  /\ writer' = [writer EXCEPT ![w] = [@ EXCEPT !.pc = "idle", !.raised = TRUE, !.n = 0,
                                               !.snap = None, !.id = None,
                                               !.diff = @ \cup {writer[w].id}]]
  /\ UNCHANGED next_id
  /\ StagingUnchanged

\* bulk_insert_mappings fails with DBAPIError: self.session.rollback() undoes
\* the flush of the NextId row and whatever the insert wrote, and
\* SpineDBAPIError is raised; the counter is not written, new_item_id not
\* updated.
BulkInsertFail(w) ==
  /\ writer[w].pc = "insert"
  /\ row_lock' = "free"
  /\ writer' = [writer EXCEPT ![w] = [@ EXCEPT !.pc = "idle", !.raised = TRUE, !.n = 0,
                                               !.snap = None, !.id = None]]
  /\ UNCHANGED next_id
  /\ StagingUnchanged

\* next_id.object_class_id = id
WriteCounter(w) ==
  /\ writer[w].pc = "write"
  /\ writer' = [writer EXCEPT ![w].pc = "commit",
                              ![w].counter = next_counter(writer[w].id, writer[w].n)]
  /\ UNCHANGED <<row_lock, next_id>>
  /\ StagingUnchanged

\* self.session.commit(); self.new_item_id[...].update(id_list); return id_list
Commit(w) ==
  /\ writer[w].pc = "commit"
  /\ row_lock' = "free"
  /\ next_id' = [next_id EXCEPT ![AllocKind] = writer[w].counter]
  /\ StagingUnchanged
  /\ writer' = [writer EXCEPT ![w] =
                  [@ EXCEPT !.pc = "idle", !.diff = @ \cup writer[w].pending,
                            !.new_item_id = @ \cup writer[w].pending,
                            !.returned = @ \cup writer[w].pending,
                            !.overlap = @ \cup (writer[w].pending \cap
                                                UNION {writer[v].returned : v \in Writers \ {w}}),
                            !.pending = {}, !.n = 0]]

NextAlloc ==
  \/ \E w \in Writers : \E n \in 1..MaxBatch : Call(w, n)
  \/ \E w \in Writers : ReadRow(w)
  \/ \E w \in Writers : Flush(w)
  \/ \E w \in Writers : FlushFail(w)
  \/ \E w \in Writers : ChooseId(w)
  \/ \E w \in Writers : BulkInsert(w)
  \/ \E w \in Writers : BulkInsertFail(w)
  \/ \E w \in Writers : WriteCounter(w)
  \/ \E w \in Writers : Commit(w)

\* ------------------------------------------ scenario and alternative filters
\* A mapping instance of its own, on a store of parameter values of two
\* entities (entity 1 an object, entity 2 a relationship, each with the
\* parameter definition of its class), alternatives, scenarios and scenario
\* alternatives.
MaxFilterOps == 3   \* calls issued in one behaviour of SpecFilter
MaxRank == 3        \* ranks of scenario alternatives are drawn from 1..MaxRank

Entities == {1, 2}

\* entity.type_id of the two entities.
entity_type_id(e) == IF e = 1 THEN object_entity_type ELSE relationship_entity_type

ParameterValue(e, a) == [entity_id |-> e, parameter_definition_id |-> e, alternative_id |-> a]

ScenarioAlternative(s, a, rank) == [scenario_id |-> s, alternative_id |-> a, rank |-> rank]

Named(id, name) == [id |-> id, name |-> name]

\* A newly created store: the Base alternative and nothing else.
EmptyTables ==
  [alternative |-> {Named(1, "Base")}, scenario |-> {}, scenario_alternative |-> {},
   parameter_value |-> {}]

\* A store with two alternatives, two scenarios that rank them, and values of
\* both entities.
SeedTables ==
  [alternative |-> {Named(1, "Base"), Named(2, "alt")},
   scenario |-> {Named(1, "s1"), Named(2, "s2")},
   scenario_alternative |-> {ScenarioAlternative(1, 1, 1), ScenarioAlternative(1, 2, 2),
                             ScenarioAlternative(2, 1, 3)},
   parameter_value |-> {ParameterValue(1, 1), ParameterValue(1, 2), ParameterValue(2, 1)}]

\* _subquery(tablename) of the filtered instance, which stages adds only:
\* the committed rows and the staged rows of the table.
Merged(t) == tables[t] \cup diff_tables[t]

NextFreeId(rows) == IF rows = {} THEN 1 ELSE MaxOf(IdsOf(rows)) + 1

\* The rows an add call of the filtered instance can stage: those that pass
\* the integrity check of their table.
NewRows(t) ==
  CASE t = "alternative" ->
         {Named(NextFreeId(Merged(t)), n) : n \in {"alt"} \ {r.name : r \in Merged(t)}}
    [] t = "scenario" ->
         {Named(NextFreeId(Merged(t)), n) : n \in {"s1", "s2"} \ {r.name : r \in Merged(t)}}
    [] t = "scenario_alternative" ->
         {sa \in {ScenarioAlternative(s, a, rank) :
                    s \in IdsOf(Merged("scenario")), a \in IdsOf(Merged("alternative")),
                    rank \in 1..MaxRank} :
            \A r \in Merged(t) :
              r.scenario_id = sa.scenario_id =>
                r.alternative_id # sa.alternative_id /\ r.rank # sa.rank}
    [] t = "parameter_value" ->
         {ParameterValue(e, a) : e \in Entities, a \in IdsOf(Merged("alternative"))}
         \ Merged(t)

\* The makers: the default _make_<view>_sq, or a replacement.  A view is
\* modelled by the replacement layers it applies, innermost first; the view
\* of the default makers applies none.
DefaultMaker == [mode |-> "default", scenario |-> None, alternatives |-> {}, original |-> <<>>]

\* A replacement that reads no view of the mapping.
Replacement == [mode |-> "replacement", scenario |-> None, alternatives |-> {}, original |-> <<>>]

Layer(x, mk) ==
  [view |-> x, mode |-> mk.mode, scenario |-> mk.scenario, alternatives |-> mk.alternatives]

Built(q) == [built |-> TRUE, hidden |-> {}, q |-> q]

Memoize(m, x, q) == IF m[x].built THEN m ELSE [m EXCEPT ![x] = Built(q)]

\* A replacement maker wraps the view its state holds in one more layer.
make_replaced(x, mk) == Append(mk.original, Layer(x, mk))

\* The entity_sq and entity_class_sq properties.
entity_sq(m, mk) ==
  Memoize(m, "entity_sq",
          IF mk["entity_sq"].mode = "default" THEN <<>>
          ELSE make_replaced("entity_sq", mk["entity_sq"]))

entity_class_sq(m, mk) ==
  Memoize(m, "entity_class_sq",
          IF mk["entity_class_sq"].mode = "default" THEN <<>>
          ELSE make_replaced("entity_class_sq", mk["entity_class_sq"]))

\* The parameter_definition_sq property; _make_parameter_definition_sq joins
\* entity_class_sq.
parameter_definition_sq(m, mk) ==
  IF m["parameter_definition_sq"].built THEN m
  ELSE IF mk["parameter_definition_sq"].mode = "default"
  THEN LET m1 == entity_class_sq(m, mk)
       IN Memoize(m1, "parameter_definition_sq", m1["entity_class_sq"].q)
  ELSE Memoize(m, "parameter_definition_sq",
               make_replaced("parameter_definition_sq", mk["parameter_definition_sq"]))

\* The parameter_value_sq property; _make_parameter_value_sq joins entity_sq
\* and entity_class_sq.
parameter_value_sq(m, mk) ==
  IF m["parameter_value_sq"].built THEN m
  ELSE IF mk["parameter_value_sq"].mode = "default"
  THEN LET m1 == entity_sq(entity_class_sq(m, mk), mk)
       IN Memoize(m1, "parameter_value_sq", m1["entity_class_sq"].q \o m1["entity_sq"].q)
  ELSE Memoize(m, "parameter_value_sq",
               make_replaced("parameter_value_sq", mk["parameter_value_sq"]))

\* The object_parameter_value_sq and relationship_parameter_value_sq
\* properties: built from parameter_value_sq, parameter_definition_sq and the
\* class and entity views.
dependent_sq(m, mk, v) ==
  IF m[v].built THEN m
  ELSE LET m1 == entity_sq(entity_class_sq(
                   parameter_definition_sq(parameter_value_sq(m, mk), mk), mk), mk)
       IN Memoize(m1, v, m1["parameter_value_sq"].q \o m1["parameter_definition_sq"].q
                         \o m1["entity_class_sq"].q \o m1["entity_sq"].q)

\* Reading property v of the mapping.
read_sq(m, mk, v) ==
  CASE v = "entity_sq" -> entity_sq(m, mk)
    [] v = "entity_class_sq" -> entity_class_sq(m, mk)
    [] v = "parameter_definition_sq" -> parameter_definition_sq(m, mk)
    [] v = "parameter_value_sq" -> parameter_value_sq(m, mk)
    [] v \in Dependent -> dependent_sq(m, mk, v)

\* in_(column, ids)
in_(x, ids) == IF ids = {} THEN FALSE ELSE x \in ids

\* _make_alternative_filtered_parameter_value_sq: the rows of the wrapped
\* view whose alternative is one of state.alternatives.
alternative_filtered(rows, alternatives) == {r \in rows : in_(r.alternative_id, alternatives)}

\* _make_scenario_filtered_parameter_value_sq: the rows of the wrapped view
\* joined to the scenario alternatives of state.scenario, numbered within
\* each (parameter_definition_id, entity_id) partition by descending rank;
\* the rows numbered 1 are kept.
scenario_filtered(rows, scenario) ==
  LET ext == {<<r, sa>> \in rows \X Merged("scenario_alternative") :
                r.alternative_id = sa.alternative_id /\ sa.scenario_id = scenario}
  IN {p[1] : p \in {p \in ext :
                      \A o \in ext :
                        (o[1].parameter_definition_id = p[1].parameter_definition_id
                         /\ o[1].entity_id = p[1].entity_id) => o[2].rank <= p[2].rank}}

\* Rows that executing a parameter value view returns.
RECURSIVE Rows(_)
Rows(q) ==
  IF q = <<>> THEN Merged("parameter_value")
  ELSE LET inner == Rows(SubSeq(q, 1, Len(q) - 1))
           layer == q[Len(q)]
       IN CASE layer.view = "parameter_value_sq" /\ layer.mode = "alternative" ->
                 alternative_filtered(inner, layer.alternatives)
            [] layer.view = "parameter_value_sq" /\ layer.mode = "scenario" ->
                 scenario_filtered(inner, layer.scenario)
            [] OTHER -> inner

\* Rows of a query over view v: the object and the relationship view hold
\* the values of the entities of their type.
RowsOf(v, q) ==
  CASE v = "object_parameter_value_sq" ->
         {r \in Rows(q) : entity_type_id(r.entity_id) = object_entity_type}
    [] v = "relationship_parameter_value_sq" ->
         {r \in Rows(q) : entity_type_id(r.entity_id) = relationship_entity_type}
    [] OTHER -> Rows(q)

\* override_<view>_maker(method): the maker is replaced and
\* _clear_subqueries(<table>) is called.
override_entity_sq_maker(m, mk, method) ==
  [maker |-> [mk EXCEPT !["entity_sq"] = method],
   memo |-> clear_subqueries(m, {"entity"})]

override_entity_class_sq_maker(m, mk, method) ==
  [maker |-> [mk EXCEPT !["entity_class_sq"] = method],
   memo |-> clear_subqueries(m, {"entity_class"})]

override_parameter_definition_sq_maker(m, mk, method) ==
  [maker |-> [mk EXCEPT !["parameter_definition_sq"] = method],
   memo |-> clear_subqueries(m, {"parameter_definition"})]

override_parameter_value_sq_maker(m, mk, method) ==
  [maker |-> [mk EXCEPT !["parameter_value_sq"] = method],
   memo |-> clear_subqueries(m, {"parameter_value"})]

\* Arguments of the filters: names (str) and ids (int).
Name(n) == [type |-> "str", name |-> n, id |-> None]

Id(i) == [type |-> "int", name |-> "", id |-> i]

ScenarioArgs == {Name("s1"), Name("zz"), Id(2), Id(9)}

AlternativeEntries == {Name("Base"), Name("zz"), Id(2), Id(9)}

AlternativeArgs ==
  {<<>>} \cup {<<a>> : a \in AlternativeEntries}
         \cup {<<a, b>> : a \in AlternativeEntries, b \in AlternativeEntries}

Resolved(id) == [raised |-> "none", ids |-> id, missing |-> {}]

NotFound(missing) == [raised |-> "SpineDBAPIError", ids |-> {}, missing |-> missing]

\* _ScenarioFilterState._scenario_id(db_map, scenario)
scenario_id(scenario) ==
  IF scenario.type = "str"
  THEN LET found == {r.id : r \in {r \in Merged("scenario") : r.name = scenario.name}}
       IN IF found = {} THEN NotFound({scenario}) ELSE Resolved(found)
  ELSE LET id_in_db == {r.id : r \in {r \in Merged("scenario") : r.id = scenario.id}}
       IN IF id_in_db = {} THEN NotFound({scenario}) ELSE Resolved({scenario.id})

\* _AlternativeFilterState._alternative_ids(db_map, alternatives)
alternative_ids(alternatives) ==
  LET IsStr(a) == a.type = "str"
      IsInt(a) == a.type = "int"
      alternative_names == SelectSeq(alternatives, IsStr)
      names == {alternative_names[i].name : i \in DOMAIN alternative_names}
      ids_from_db == {r \in Merged("alternative") : in_(r.name, names)}
      names_in_db == {r.name : r \in ids_from_db}
      missing_names == {alternative_names[i] : i \in {i \in DOMAIN alternative_names :
                                                      alternative_names[i].name \notin names_in_db}}
      ids == {r.id : r \in ids_from_db}
      alternative_id_list == SelectSeq(alternatives, IsInt)
      id_set == {alternative_id_list[i].id : i \in DOMAIN alternative_id_list}
      ids_in_db == {r.id : r \in {r \in Merged("alternative") : in_(r.id, id_set)}}
      missing_ids == {alternative_id_list[i] : i \in {i \in DOMAIN alternative_id_list :
                                                     alternative_id_list[i].id \notin ids_in_db}}
  IN IF Len(alternative_names) # Cardinality(names_in_db) THEN NotFound(missing_names)
     ELSE IF Len(alternative_id_list) # Cardinality(ids_in_db) THEN NotFound(missing_ids)
     ELSE Resolved(ids \cup ids_in_db)

\* What a call leaves of the mapping: its memoized views and its makers.
Applied(m, mk, res) == [memo |-> m, maker |-> mk, res |-> res]

\* apply_scenario_filter_to_parameter_value_sq(db_map, scenario): the state
\* is constructed, which reads parameter_value_sq and resolves the scenario,
\* and the filtering maker is installed.
apply_scenario_filter_installing_first(m, mk, scenario) ==
  LET m1 == parameter_value_sq(m, mk)
      res == scenario_id(scenario)
      state == [mode |-> "scenario",
                scenario |-> IF res.ids = {} THEN None ELSE CHOOSE s \in res.ids : TRUE,
                alternatives |-> {}, original |-> m1["parameter_value_sq"].q]
      o == override_parameter_value_sq_maker(m1, mk, state)
  IN Applied(o.memo, o.maker, res)

apply_scenario_filter_to_parameter_value_sq(m, mk, scenario) ==
  LET m1 == parameter_value_sq(m, mk)
      res == scenario_id(scenario)
      state == [mode |-> "scenario", scenario |-> CHOOSE s \in res.ids : TRUE,
                alternatives |-> {}, original |-> m1["parameter_value_sq"].q]
      o == override_parameter_value_sq_maker(m1, mk, state)
  IN IF res.raised # "none" THEN Applied(m1, mk, res) ELSE Applied(o.memo, o.maker, res)

\* apply_alternative_filter_to_parameter_value_sq(db_map, alternatives)
apply_alternative_filter_to_parameter_value_sq(m, mk, alternatives) ==
  LET m1 == parameter_value_sq(m, mk)
      res == alternative_ids(alternatives)
      state == [mode |-> "alternative", scenario |-> None, alternatives |-> res.ids,
                original |-> m1["parameter_value_sq"].q]
      o == override_parameter_value_sq_maker(m1, mk, state)
  IN IF res.raised # "none" THEN Applied(m1, mk, res) ELSE Applied(o.memo, o.maker, res)

\* The expression and the rows that a read of view v returns.
Expr(m, mk, v) == read_sq(m, mk, v)[v].q

ViewRows(m, mk, v) == RowsOf(v, Expr(m, mk, v))

\* The filtered instance leaves the staging instance and the writers alone.
OthersUnchanged ==
  UNCHANGED <<orig, shadow, next_id, added_item_id, updated_item_id, dirty_item_id,
              removed_item_id, transaction, commit_id, commit_table, undo, session_view,
              writer, row_lock, sq, db>>

\* What the calls of SpecFilter record: the makers and the rows of the
\* parameter value view before the call.
FilterCall(op) ==
  [NoCall EXCEPT !.op = op, !.pre = [maker |-> maker["parameter_value_sq"],
                                     rows |-> ViewRows(memo, maker, "parameter_value_sq")]]

\* add_<table>s of one checked item on the filtered instance (_add_items).
AddItems(t, row) ==
  /\ nops' = nops + 1
  /\ diff_tables' = [diff_tables EXCEPT ![t] = @ \cup {row}]
  /\ memo' = clear_subqueries(memo, {t})
  /\ last' = [FilterCall("add_items") EXCEPT !.kind = t, !.ret = {row}]
  /\ UNCHANGED <<tables, maker>>
  /\ OthersUnchanged

ApplyScenarioFilter(scenario) ==
  LET a == apply_scenario_filter_to_parameter_value_sq(memo, maker, scenario)
  IN /\ nops' = nops + 1
     /\ memo' = a.memo
     /\ maker' = a.maker
     /\ last' = [FilterCall("apply_scenario_filter") EXCEPT
                   !.batch = <<scenario>>, !.raised = a.res.raised, !.ret = a.res.missing]
     /\ UNCHANGED <<tables, diff_tables>>
     /\ OthersUnchanged

ApplyAlternativeFilter(alternatives) ==
  LET a == apply_alternative_filter_to_parameter_value_sq(memo, maker, alternatives)
  IN /\ nops' = nops + 1
     /\ memo' = a.memo
     /\ maker' = a.maker
     /\ last' = [FilterCall("apply_alternative_filter") EXCEPT
                   !.batch = alternatives, !.raised = a.res.raised, !.ret = a.res.missing]
     /\ UNCHANGED <<tables, diff_tables>>
     /\ OthersUnchanged

\* override_<view>_maker(method) with a replacement of the caller's own.
Override(x) ==
  LET o == CASE x = "entity_sq" -> override_entity_sq_maker(memo, maker, Replacement)
             [] x = "entity_class_sq" -> override_entity_class_sq_maker(memo, maker, Replacement)
             [] x = "parameter_definition_sq" ->
                  override_parameter_definition_sq_maker(memo, maker, Replacement)
  IN /\ nops' = nops + 1
     /\ memo' = o.memo
     /\ maker' = o.maker
     /\ last' = [FilterCall("override") EXCEPT !.kind = x]
     /\ UNCHANGED <<tables, diff_tables>>
     /\ OthersUnchanged

\* db_map.query(db_map.<view>).all()
Query(v) ==
  /\ nops' = nops + 1
  /\ memo' = read_sq(memo, maker, v)
  /\ last' = [FilterCall("query") EXCEPT !.kind = v, !.ret = ViewRows(memo, maker, v)]
  /\ UNCHANGED <<tables, diff_tables, maker>>
  /\ OthersUnchanged

\* db_map.query(db_map.<kind>_sq).all() on the staging instance.
QueryStaged(k) ==
  LET m == sq_property(sq, k)
  IN /\ nops' = nops + 1
     /\ sq' = m
     /\ last' = [NoCall EXCEPT !.op = "query", !.kind = k, !.pre = View(k),
                               !.ret = WideItems(k, SqRows(k, m[k]))]
     /\ UNCHANGED <<orig, shadow, next_id, added_item_id, updated_item_id, dirty_item_id,
                    removed_item_id, transaction, commit_id, commit_table, undo, session_view,
                    writer, row_lock>>
     /\ FilterUnchanged

\* ------------------------------------------------- constructing a mapping
MaxTables == 7   \* tables, from the head of table_to_class, that a store may lack

\* self.table_to_class: the tables the mapping needs, in the order of the dict.
table_to_class ==
  <<"alternative", "scenario", "scenario_alternative", "commit", "entity_class",
    "entity_class_type", "entity", "entity_type", "object", "object_class",
    "relationship_class", "relationship", "relationship_entity",
    "relationship_entity_class", "entity_group", "parameter_definition", "parameter_value",
    "parameter_tag", "parameter_definition_tag", "parameter_value_list", "tool", "feature",
    "tool_feature", "tool_feature_method", "metadata", "parameter_value_metadata",
    "entity_metadata">>

RequiredTables == {table_to_class[i] : i \in DOMAIN table_to_class}

\* The schemas a store at the URL can have: any of the first MaxTables
\* required tables may be absent.
Schemas ==
  {RequiredTables \ absent :
     absent \in SUBSET {table_to_class[i] : i \in 1..MaxTables}}

\* _create_mapping with the raise inside the loop: the first missing table only.
create_mapping_raising_at_first(schema) ==
  LET Missing(t) == t \notin schema
      not_found == SelectSeq(table_to_class, Missing)
  IN IF not_found # <<>>
     THEN [raised |-> "SpineTableNotFoundError", not_found |-> <<Head(not_found)>>]
     ELSE [raised |-> "none", not_found |-> <<>>]

\* _create_mapping(): the tables of table_to_class that the reflected schema
\* does not hold are collected in not_found, and one SpineTableNotFoundError
\* with the whole list is raised after the loop.
create_mapping(schema) ==
  LET Missing(t) == t \notin schema
      not_found == SelectSeq(table_to_class, Missing)
  IN IF not_found # <<>>
     THEN [raised |-> "SpineTableNotFoundError", not_found |-> not_found]
     ELSE [raised |-> "none", not_found |-> <<>>]

\* The other mapping instances are left alone by a construction, by a check
\* called on its own and by a checked add of one item.
RestUnchanged ==
  UNCHANGED <<orig, shadow, next_id, added_item_id, updated_item_id, dirty_item_id,
              removed_item_id, transaction, commit_id, commit_table, undo, session_view,
              writer, row_lock, sq, tables, diff_tables, memo, maker>>

\* DiffDatabaseMapping(db_url) on a store with the given schema: __init__
\* runs _create_mapping(); an exception leaves the caller without an instance.
CreateMapping(schema) ==
  LET r == create_mapping(schema)
  IN /\ nops' = nops + 1
     /\ last' = [NoCall EXCEPT !.op = "create_mapping", !.pre = schema, !.raised = r.raised,
                               !.log = r.not_found,
                               !.ret = IF r.raised = "none" THEN {"DiffDatabaseMapping"} ELSE {}]
     /\ db' = db
     /\ RestUnchanged

\* --------------------------------------------- checks of entities and classes
\* The object classes, the relationship class and the objects of the store
\* that checked adds of relationships work on.
object_class_ids == {1, 2}

\* relationship_classes: wide relationship class items keyed by id.
relationship_classes == [c \in {3} |-> [object_class_id_list |-> <<1, 2>>, name |-> "rc"]]

\* objects: object items keyed by id.
objects ==
  [o \in {1, 2, 3} |-> [class_id |-> IF o = 2 THEN 2 ELSE 1,
                        name |-> IF o = 1 THEN "o1" ELSE IF o = 2 THEN "o2" ELSE "o3"]]

\* A wide relationship class item and a wide relationship item (kwargs dicts).
WideClass(name, object_class_id_list, tid) ==
  [name |-> name, object_class_id_list |-> object_class_id_list, type_id |-> tid]

Wide(name, class_id, object_id_list, tid) ==
  [name |-> name, class_id |-> class_id, object_id_list |-> object_id_list, type_id |-> tid]

check_wide_relationship_class(wide_item, current_items, class_ids, relationship_class_type_id) ==
  LET given_object_class_id_list == wide_item.object_class_id_list
  IN IF wide_item.name = "" THEN IntegrityError(None)
     ELSE IF given_object_class_id_list = <<>> THEN IntegrityError(None)
     ELSE IF \E i \in DOMAIN given_object_class_id_list :
               given_object_class_id_list[i] \notin class_ids
     THEN IntegrityError(None)
     ELSE IF wide_item.type_id # None /\ wide_item.type_id # relationship_class_type_id
     THEN \* id=current_items[name]
          IF InDict(current_items, <<None, wide_item.name>>)
          THEN IntegrityError(Lookup(current_items, <<None, wide_item.name>>))
          ELSE KeyError
     ELSE IF InDict(current_items, <<None, wide_item.name>>)
     THEN IntegrityError(Lookup(current_items, <<None, wide_item.name>>))
     ELSE Ok

\* check_wide_relationship.  The key (class_id, join_object_id_list) of
\* current_items_by_obj_lst is written as the pair of the class id and the
\* list itself: ",".join of decimal numbers maps different lists to different
\* strings.
check_wide_relationship(wide_item, current_items_by_name, current_items_by_obj_lst, rel_classes, objs, relationship_entity_type_id) ==
  LET name == wide_item.name
      class_id == wide_item.class_id
      object_id_list == wide_item.object_id_list
      given_object_class_id_list == [i \in DOMAIN object_id_list |-> objs[object_id_list[i]].class_id]
  IN IF name = "" THEN IntegrityError(None)
     ELSE IF wide_item.type_id # None /\ wide_item.type_id # relationship_entity_type_id
     THEN \* id=current_items_by_name[class_id, name]
          IF InDict(current_items_by_name, <<class_id, name>>)
          THEN IntegrityError(Lookup(current_items_by_name, <<class_id, name>>))
          ELSE KeyError
     ELSE IF InDict(current_items_by_name, <<class_id, name>>)
     THEN IntegrityError(Lookup(current_items_by_name, <<class_id, name>>))
     ELSE IF class_id \notin DOMAIN rel_classes THEN IntegrityError(None)
     ELSE IF \E i \in DOMAIN object_id_list : object_id_list[i] \notin DOMAIN objs
     THEN IntegrityError(None)
     ELSE IF given_object_class_id_list # rel_classes[class_id].object_class_id_list
     THEN IntegrityError(None)
     ELSE IF InDict(current_items_by_obj_lst, <<class_id, object_id_list>>)
     THEN IntegrityError(Lookup(current_items_by_obj_lst, <<class_id, object_id_list>>))
     ELSE Ok

\* The check functions called on their own, and the candidates and lookups
\* they are called with.
NamedOnly == {"check_alternative", "check_scenario", "check_tool"}

CheckFunctions ==
  {"check_object_class", "check_object", "check_wide_relationship_class",
   "check_wide_relationship", "check_parameter_definition",
   "check_wide_parameter_value_list"} \cup NamedOnly

TypeIds == {None, 1, 2}

ObjectIdLists == {<<>>, <<1>>, <<1, 2>>, <<2, 1>>, <<3, 2>>, <<1, 3>>, <<1, 2, 1>>, <<9, 2>>}

Candidates(fn) ==
  CASE fn = "check_object_class" ->
         {Item(n, None, <<>>, tid) : n \in {"a", ""}, tid \in TypeIds}
    [] fn = "check_object" ->
         {Item(n, c, <<>>, tid) : n \in {"a", ""}, c \in {1, 9}, tid \in TypeIds}
    [] fn = "check_wide_relationship_class" ->
         {WideClass(n, l, tid) : n \in {"a", ""}, l \in {<<>>, <<1, 2>>, <<1, 9>>}, tid \in TypeIds}
    [] fn = "check_wide_relationship" ->
         {Wide(n, c, l, tid) : n \in {"a", "b", ""}, c \in {3, 9}, l \in ObjectIdLists, tid \in TypeIds}
    [] fn = "check_parameter_definition" ->
         {Item(n, c, <<>>, None) : n \in {"a", ""}, c \in {None, 1, 9}}
    [] fn = "check_wide_parameter_value_list" ->
         {Item(n, None, l, None) : n \in {"a", ""}, l \in {<<"x">>, <<"x", "x">>}}
    [] fn \in NamedOnly ->
         {Item(n, None, <<>>, None) : n \in {"a", ""}}

\* The dicts of current items: keyed by name for the classes, by
\* (class_id, name) for the objects and the relationships.
CurrentDicts(fn) ==
  IF fn \in {"check_object_class", "check_wide_relationship_class",
            "check_wide_parameter_value_list"} \cup NamedOnly
  THEN SUBSET {<<<<None, "a">>, 1>>, <<<<None, "b">>, 2>>}
  ELSE SUBSET {<<<<IF fn = "check_wide_relationship" THEN 3 ELSE 1, "a">>, 1>>,
               <<<<IF fn = "check_wide_relationship" THEN 3 ELSE 1, "b">>, 2>>}

\* The (class_id, object_id_list) dicts of relationships.
ObjLstDicts(fn) ==
  IF fn = "check_wide_relationship" THEN {{}, {<<<<3, <<1, 2>>>>, 1>>}} ELSE {{}}

\* The type a check function expects of its kind.
ExpectedType(fn) ==
  CASE fn = "check_object_class" -> object_class_type
    [] fn = "check_object" -> object_entity_type
    [] fn = "check_wide_relationship_class" -> relationship_class_type
    [] fn = "check_wide_relationship" -> relationship_entity_type

\* check_<kind>(item, current_items, ...): returns, or raises.
Check(fn, item, current_items, by_obj_lst) ==
  LET r == CASE fn = "check_object_class" ->
                  check_object_class(item, current_items, object_class_type)
             [] fn = "check_object" ->
                  check_object(item, current_items, object_class_ids, object_entity_type)
             [] fn = "check_wide_relationship_class" ->
                  check_wide_relationship_class(item, current_items, object_class_ids,
                                                relationship_class_type)
             [] fn = "check_wide_relationship" ->
                  check_wide_relationship(item, current_items, by_obj_lst,
                                          relationship_classes, objects,
                                          relationship_entity_type)
             [] fn = "check_parameter_definition" ->
                  check_parameter_definition(item, current_items, object_class_ids)
             [] fn = "check_wide_parameter_value_list" ->
                  check_wide_parameter_value_list(item, current_items)
             [] fn = "check_alternative" -> check_alternative(item, current_items)
             [] fn = "check_scenario" -> check_scenario(item, current_items)
             [] fn = "check_tool" -> check_tool(item, current_items)
  IN /\ nops' = nops + 1
     /\ last' = [NoCall EXCEPT !.op = "check", !.kind = fn, !.batch = <<item>>,
                               !.pre = current_items, !.raised = IF r.res = "ok" THEN "none" ELSE r.res,
                               !.log = IF r.res = "SpineIntegrityError" THEN <<r.id>> ELSE <<>>]
     /\ db' = db
     /\ RestUnchanged

\* ------------------------------------------------- the store of checked adds
MaxStoreOps == 3   \* calls issued in one behaviour of SpecCheck and of the specifications of checked adds

\* The tables that the checked adds of one item fill.
StoreTables == {"relationship", "parameter_value", "scenario_alternative"}

\* A store without rows in these tables and without persisted counters.
NewStore == [rows |-> [t \in StoreTables |-> {}], next_id |-> [t \in StoreTables |-> None]]

\* _add_<table>s(*checked) on the store: ids from the counter (or from the
\* original table, which holds no row here), the rows, the counter written back.
add_rows(store, t, id, n, rows) ==
  [rows |-> [store.rows EXCEPT ![t] = @ \cup rows],
   next_id |-> [store.next_id EXCEPT ![t] = next_counter(id, n)]]

\* What an add call of one item does with the outcome r of its check: a
\* KeyError leaves the call; an integrity error leaves it when strict, and is
\* logged otherwise, with _add_<table>s called on no item; an item that
\* passes is handed to _add_<table>s, which gives its rows the new id.
AddOne(api, t, item, strict, r, item_rows) ==
  LET id == first_id(db.next_id[t], {})
      rows_of_id == {[row EXCEPT !.id = id] : row \in item_rows}
      base == [NoCall EXCEPT !.op = "add", !.api = api, !.kind = t, !.batch = <<item>>,
                             !.strict = strict, !.pre = db.rows[t]]
  IN /\ nops' = nops + 1
     /\ RestUnchanged
     /\ CASE r.res = "KeyError" \/ (r.res = "SpineIntegrityError" /\ strict) ->
               /\ last' = [base EXCEPT !.raised = r.res,
                                       !.log = IF r.res = "KeyError" THEN <<>> ELSE <<r.id>>]
               /\ db' = db
          [] r.res = "SpineIntegrityError" /\ ~strict ->
               /\ last' = [base EXCEPT !.log = <<r.id>>]
               /\ db' = add_rows(db, t, id, 0, {})
          [] OTHER ->
               /\ last' = [base EXCEPT !.ids = {id}, !.ret = rows_of_id]
               /\ db' = add_rows(db, t, id, 1, rows_of_id)

\* The narrow rows of a wide relationship: one per dimension.
relationship_rows(wide_item, id) ==
  {[id |-> id, class_id |-> wide_item.class_id, dimension |-> i - 1,
    object_id |-> wide_item.object_id_list[i], name |-> wide_item.name] :
     i \in DOMAIN wide_item.object_id_list}

\* The object_id_list of relationship id in the wide relationship view:
\* the object ids in the order of the dimensions.
object_id_list_of(rows, id) ==
  [i \in 1..Cardinality({r \in rows : r.id = id}) |->
     (CHOOSE r \in rows : r.id = id /\ r.dimension = i - 1).object_id]

\* add_wide_relationships(wide_kwargs, strict=strict)
AddWideRelationships(wide_item, strict) ==
  LET rows == db.rows["relationship"]
      by_name == {<<<<r.class_id, r.name>>, r.id>> : r \in rows}
      by_obj_lst == {<<<<r.class_id, object_id_list_of(rows, r.id)>>, r.id>> : r \in rows}
      r == check_wide_relationship(wide_item, by_name, by_obj_lst, relationship_classes,
                                   objects, relationship_entity_type)
  IN AddOne("add_wide_relationships", "relationship", wide_item, strict, r,
            relationship_rows(wide_item, None))

\* ------------------------------------------------ checks of parameter values
\* Database values are JSON texts, written as sequences of characters.
Quote == "\""

\* The value None of an item without a value: apart from every text.
NoValue == <<"None">>

JsonNumber == <<"1">>

JsonString(chars) == <<Quote>> \o chars \o <<Quote>>

\* from_database(value, value_type=None): None is passed through, any other
\* value must parse as JSON; here a number or a string.
is_json(value) ==
  \/ value # <<>> /\ \A i \in DOMAIN value : value[i] = "1"
  \/ /\ Len(value) >= 2 /\ value[1] = Quote /\ value[Len(value)] = Quote
     /\ \A i \in 2..(Len(value) - 1) : value[i] # Quote

from_database(value) ==
  IF value = NoValue \/ is_json(value) THEN "ok" ELSE "ParameterValueFormatError"

\* func.group_concat(column, ";"): the values of the group joined by ";".
RECURSIVE group_concat(_, _)
group_concat(values, sep) ==
  IF values = <<>> THEN <<>>
  ELSE IF Len(values) = 1 THEN values[1]
  ELSE values[1] \o <<sep>> \o group_concat(Tail(values), sep)

\* value_list.split(";")
RECURSIVE split(_, _)
split(s, sep) ==
  IF \A i \in DOMAIN s : s[i] # sep THEN <<s>>
  ELSE LET i == CHOOSE i \in DOMAIN s : s[i] = sep /\ \A j \in 1..(i - 1) : s[j] # sep
       IN <<SubSeq(s, 1, i - 1)>> \o split(SubSeq(s, i + 1, Len(s)), sep)

\* The values of the parameter value list 1 in the order of value_index: the
\* strings "x" and "x;1;y".
parameter_value_list_values ==
  [l \in {1} |-> <<JsonString(<<"x">>), JsonString(<<"x", ";", "1", ";", "y">>)>>]

\* parameter_value_lists: value_list of wide_parameter_value_list_sq keyed by id.
parameter_value_lists ==
  [l \in DOMAIN parameter_value_list_values |-> group_concat(parameter_value_list_values[l], ";")]

\* parameter_definitions keyed by id: definition 1 of class 1 without a value
\* list, definition 2 of class 2 with value list 1.
parameter_definitions ==
  [d \in {1, 2} |-> [name |-> IF d = 1 THEN "p1" ELSE "p2", entity_class_id |-> d,
                     parameter_value_list_id |-> IF d = 1 THEN None ELSE 1]]

store_alternative_ids == {1, 2}

\* A parameter value item (kwargs dict).
Value(entity_id, parameter_definition_id, alternative_id, value) ==
  [entity_id |-> entity_id, parameter_definition_id |-> parameter_definition_id,
   alternative_id |-> alternative_id, value |-> value]

\* A check_parameter_value that does not look at current_items.
check_parameter_value_without_duplicates(item, current_items, definitions, entities, value_lists, alternatives) ==
  LET parameter_definition_id == item.parameter_definition_id
      value == item.value
      alt_id == item.alternative_id
      entity_id == item.entity_id
  IN IF parameter_definition_id \notin DOMAIN definitions THEN IntegrityError(None)
     ELSE IF alt_id \notin alternatives THEN IntegrityError(None)
     ELSE IF from_database(value) # "ok" THEN IntegrityError(None)
     ELSE IF /\ value # NoValue
             /\ definitions[parameter_definition_id].parameter_value_list_id \in DOMAIN value_lists
             /\ ~\E i \in DOMAIN split(value_lists[definitions[parameter_definition_id].parameter_value_list_id], ";") :
                   split(value_lists[definitions[parameter_definition_id].parameter_value_list_id], ";")[i] = value
     THEN IntegrityError(None)
     ELSE IF entity_id = None THEN IntegrityError(None)
     ELSE IF entity_id \notin DOMAIN entities THEN IntegrityError(None)
     ELSE IF entities[entity_id].class_id # definitions[parameter_definition_id].entity_class_id
     THEN IntegrityError(None)
     ELSE Ok

check_parameter_value(item, current_items, definitions, entities, value_lists, alternatives) ==
  LET parameter_definition_id == item.parameter_definition_id
      value == item.value
      alt_id == item.alternative_id
      entity_id == item.entity_id
  IN IF parameter_definition_id \notin DOMAIN definitions THEN IntegrityError(None)
     ELSE IF alt_id \notin alternatives THEN IntegrityError(None)
     ELSE IF from_database(value) # "ok" THEN IntegrityError(None)
     ELSE IF /\ value # NoValue
             /\ definitions[parameter_definition_id].parameter_value_list_id \in DOMAIN value_lists
             /\ ~\E i \in DOMAIN split(value_lists[definitions[parameter_definition_id].parameter_value_list_id], ";") :
                   split(value_lists[definitions[parameter_definition_id].parameter_value_list_id], ";")[i] = value
     THEN IntegrityError(None)
     ELSE IF entity_id = None THEN IntegrityError(None)
     ELSE IF entity_id \notin DOMAIN entities THEN IntegrityError(None)
     ELSE IF entities[entity_id].class_id # definitions[parameter_definition_id].entity_class_id
     THEN IntegrityError(None)
     ELSE IF InDict(current_items, <<entity_id, parameter_definition_id, alt_id>>)
     THEN IntegrityError(Lookup(current_items, <<entity_id, parameter_definition_id, alt_id>>))
     ELSE Ok

\* The values that callers hand in: null, the number 1, the strings "x",
\* "y" and "x;1;y", and the text x, which is not JSON.
ValueTexts ==
  {NoValue, JsonNumber, JsonString(<<"x">>), JsonString(<<"y">>),
   JsonString(<<"x", ";", "1", ";", "y">>), <<"x">>}

ValueItems(texts) ==
  {Value(e, d, a, v) : e \in {None, 1, 2, 9}, d \in {1, 2, 9}, a \in {1, 2, 9}, v \in texts}

\* check_parameter_value(item, current_items, ...) called on its own.
CheckParameterValue(item, current_items) ==
  LET r == check_parameter_value(item, current_items, parameter_definitions, objects,
                                 parameter_value_lists, store_alternative_ids)
  IN /\ nops' = nops + 1
     /\ last' = [NoCall EXCEPT !.op = "check", !.kind = "check_parameter_value",
                               !.batch = <<item>>, !.pre = current_items,
                               !.raised = IF r.res = "ok" THEN "none" ELSE r.res,
                               !.log = IF r.res = "SpineIntegrityError" THEN <<r.id>> ELSE <<>>]
     /\ db' = db
     /\ RestUnchanged

\* add_parameter_values(kwargs, strict=strict): the current items are the
\* parameter values of the store keyed by (entity_id, parameter_definition_id,
\* alternative_id).
AddParameterValues(item, strict) ==
  LET rows == db.rows["parameter_value"]
      current_items ==
        {<<<<r.entity_id, r.parameter_definition_id, r.alternative_id>>, r.id>> : r \in rows}
      r == check_parameter_value(item, current_items, parameter_definitions, objects,
                                 parameter_value_lists, store_alternative_ids)
      item_rows == {[id |-> None, entity_id |-> item.entity_id,
                     parameter_definition_id |-> item.parameter_definition_id,
                     alternative_id |-> item.alternative_id, value |-> item.value]}
  IN AddOne("add_parameter_values", "parameter_value", item, strict, r, item_rows)

\* --------------------------------------------- checks of scenario alternatives
\* scenario_names and alternative_names: names keyed by id.
scenario_names == [s \in {1, 2} |-> IF s = 1 THEN "s1" ELSE "s2"]

alternative_names == [a \in {1, 2} |-> IF a = 1 THEN "Base" ELSE "alt"]

\* check_scenario_alternative, on an item that carries its three fields.
check_scenario_alternative(item, ids_by_alt_id, ids_by_rank, scen_names, alt_names) ==
  LET scen_id == item.scenario_id
      alt_id == item.alternative_id
      rank == item.rank
  IN IF scen_id \notin DOMAIN scen_names THEN IntegrityError(None)
     ELSE IF alt_id \notin DOMAIN alt_names THEN IntegrityError(None)
     ELSE IF InDict(ids_by_alt_id, <<scen_id, alt_id>>)
     THEN IntegrityError(Lookup(ids_by_alt_id, <<scen_id, alt_id>>))
     ELSE IF InDict(ids_by_rank, <<scen_id, rank>>)
     THEN IntegrityError(Lookup(ids_by_rank, <<scen_id, rank>>))
     ELSE Ok

\* The ranks that callers hand in.
RankArgs == 0..MaxRank

RankItems ==
  {ScenarioAlternative(s, a, rank) : s \in {1, 2, 9}, a \in {1, 2, 9}, rank \in RankArgs}

\* A checked add of one scenario alternative: the lookups are the rows of
\* the store keyed by (scenario_id, alternative_id) and by (scenario_id, rank).
AddScenarioAlternatives(item, strict) ==
  LET rows == db.rows["scenario_alternative"]
      ids_by_alt_id == {<<<<r.scenario_id, r.alternative_id>>, r.id>> : r \in rows}
      ids_by_rank == {<<<<r.scenario_id, r.rank>>, r.id>> : r \in rows}
      r == check_scenario_alternative(item, ids_by_alt_id, ids_by_rank, scenario_names,
                                      alternative_names)
      item_rows == {[id |-> None, scenario_id |-> item.scenario_id,
                     alternative_id |-> item.alternative_id, rank |-> item.rank]}
  IN AddOne("add_scenario_alternatives", "scenario_alternative", item, strict, r, item_rows)

\* linked_scenario_alternative_sq: every scenario alternative, outer-joined
\* with the scenario alternative of the same scenario whose rank is its own
\* rank + 1; next_alternative_id is null where the join finds none.
linked_scenario_alternative_sq(rows) ==
  UNION {LET scenario_next_alternative ==
               {n \in rows : n.scenario_id = sa.scenario_id /\ n.rank = sa.rank + 1}
         IN IF scenario_next_alternative = {}
            THEN {[id |-> sa.id, scenario_id |-> sa.scenario_id,
                   alternative_id |-> sa.alternative_id, next_alternative_id |-> None]}
            ELSE {[id |-> sa.id, scenario_id |-> sa.scenario_id,
                   alternative_id |-> sa.alternative_id,
                   next_alternative_id |-> n.alternative_id] : n \in scenario_next_alternative}
         : sa \in rows}

\* ------------------------------------------------ export of the value lists
\* The database value that the items write v: the JSON string of v.
DatabaseText(v) == JsonString(<<v>>)

\* value_list of wide_parameter_value_list_sq for a wide row: the database
\* values of the list joined by func.group_concat(value, ";").
wide_value_list(x) ==
  group_concat([i \in DOMAIN x.value_list |-> DatabaseText(x.value_list[i])], ";")

\* export_parameter_value_lists(db_map): (x.name, x.value_list.split(","))
\* for every row of wide_parameter_value_list_sq.
export_parameter_value_lists(wide_rows) ==
  {<<x.name, split(wide_value_list(x), ",")>> : x \in wide_rows}

\* ------------------------------------------------------------------- init
Seed(k) ==
  CASE k = "alternative" -> {Row(1, "Base", None, 0, "")}
    [] k = "object_class" -> {Row(1, "a", None, 0, "")}
    [] k = "object" -> {Row(1, "a", 1, 0, "")}
    [] k = "parameter_definition" -> {Row(1, "a", 1, 0, "")}
    [] k = "parameter_value_list" -> {Row(1, "a", None, 0, "x")}

\* A store that holds the default alternative, and either nothing else or
\* one committed item of every kind; the NextId row is unset, or set by the
\* adds that wrote those items.
Init ==
  /\ \E seeded \in BOOLEAN :
       /\ orig = [k \in Kinds |-> IF seeded \/ k = "alternative" THEN Seed(k) ELSE {}]
       /\ tables = IF seeded THEN SeedTables ELSE EmptyTables
       /\ \E counted \in BOOLEAN :
            next_id = [k \in Kinds |-> IF counted /\ seeded THEN 2 ELSE None]
  /\ shadow = [k \in Kinds |-> {}]
  /\ added_item_id = [k \in Kinds |-> {}]
  /\ updated_item_id = [k \in Kinds |-> {}]
  /\ dirty_item_id = [k \in Kinds |-> {}]
  /\ removed_item_id = [k \in Kinds |-> {}]
  /\ transaction = "None"
  /\ commit_id = None
  /\ commit_table = {}
  /\ undo = [k \in Kinds |-> {}]
  /\ session_view = [k \in Kinds |-> {}]
  /\ last = NoCall
  /\ nops = 0
  /\ writer = [w \in Writers |-> Idle]
  /\ row_lock = "free"
  /\ sq = [k \in Kinds |-> NotBuilt]
  /\ diff_tables = [t \in DOMAIN EmptyTables |-> {}]
  /\ memo = [v \in SqAttrs |-> NotBuilt]
  /\ maker = [x \in Overridable |-> DefaultMaker]
  /\ db = NewStore

\* The add calls of a staging session: add_<kind>s in strict and in collect
\* mode, on the kinds with globally unique names, with items that carry a
\* name, no explicit type and, for a value list, one or two different values.
StageCalls ==
  {c \in AddCalls :
     /\ c.api = "add_many" /\ c.kind \in GloballyUnique /\ ~c.return_dups
     /\ \A i \in DOMAIN c.batch :
          /\ c.batch[i].name # "" /\ c.batch[i].type_id = None
          /\ c.kind \in WideKinds => c.batch[i].value_list \in {<<"x">>, <<"x", "y">>}}

Next ==
  \/ \E c \in StageCalls : nops < MaxOps /\ Add(c)
  \/ \E items \in SeqsUpTo(UpdateItems("object_class"), MaxBatch) :
       nops < MaxOps /\ Ascending(items) /\ Update("object_class", items)
  \/ \E ids \in SUBSET KnownIds("object_class") :
       nops < MaxOps /\ ids # {} /\ Cardinality(ids) <= MaxBatch /\ Remove("object_class", ids)
  \/ \E comment \in Comments : nops < MaxOps /\ commit_session(comment)
  \/ nops < MaxOps /\ rollback_session

Spec == Init /\ [][Next]_vars

\* Add calls of every entry point, in every mode, on every kind.
NextAdd == \E c \in AddCalls : nops < MaxAdds /\ Add(c)

SpecAdd == Init /\ [][NextAdd]_vars

\* Two writers allocating ids for the same table.
SpecAlloc == Init /\ [][NextAlloc]_vars

\* The staging session of Spec with reads of the memoized views in between.
NextView ==
  \/ Next
  \/ \E k \in {"object_class", "alternative"} : nops < MaxOps /\ QueryStaged(k)

SpecView == Init /\ [][NextView]_vars

\* Adds, filters, overrides and reads on the filtered instance.
NextFilter ==
  \/ \E t \in DOMAIN EmptyTables : \E row \in NewRows(t) : nops < MaxFilterOps /\ AddItems(t, row)
  \/ \E scenario \in ScenarioArgs : nops < MaxFilterOps /\ ApplyScenarioFilter(scenario)
  \/ \E alternatives \in AlternativeArgs :
       nops < MaxFilterOps /\ ApplyAlternativeFilter(alternatives)
  \/ \E x \in Overridable \ {"parameter_value_sq"} : nops < MaxFilterOps /\ Override(x)
  \/ \E v \in {"parameter_value_sq"} \cup Dependent : nops < MaxFilterOps /\ Query(v)

SpecFilter == Init /\ [][NextFilter]_vars

\* Mappings constructed on stores with every schema of Schemas.
NextCreate == \E schema \in Schemas : nops < MaxOps /\ CreateMapping(schema)

SpecCreate == Init /\ [][NextCreate]_vars

\* The check functions of the entities and classes, called on every candidate
\* with every dict of current items.
NextCheck ==
  \E fn \in CheckFunctions : \E item \in Candidates(fn) :
    \E current_items \in CurrentDicts(fn) : \E by_obj_lst \in ObjLstDicts(fn) :
      nops < MaxStoreOps /\ Check(fn, item, current_items, by_obj_lst)

SpecCheck == Init /\ [][NextCheck]_vars

\* Checked adds of relationships, one item a call.
NextRelationship ==
  \E wide_item \in Candidates("check_wide_relationship") : \E strict \in BOOLEAN :
    nops < MaxStoreOps /\ AddWideRelationships(wide_item, strict)

SpecRelationship == Init /\ [][NextRelationship]_vars

\* The items of the update batches of SpecUpdate: any known id, under one of
\* two new names; a batch holds them in any order and may repeat an id.
AnyUpdateItems(k) == {Row(id, n, None, 0, "") : id \in KnownIds(k), n \in {"c", "d"}}

\* Adds and updates of object classes within one staging session.
NextUpdate ==
  \/ \E c \in {c \in StageCalls : c.kind = "object_class"} : nops < MaxOps /\ Add(c)
  \/ \E items \in SeqsUpTo(AnyUpdateItems("object_class"), MaxBatch) :
       nops < MaxOps /\ Update("object_class", items)

SpecUpdate == Init /\ [][NextUpdate]_vars

\* Checked adds of parameter values, one item per call, on the store.
NextValue ==
  \E item \in ValueItems({NoValue, JsonString(<<"x">>), <<"x">>}) : \E strict \in BOOLEAN :
    nops < MaxStoreOps /\ AddParameterValues(item, strict)

SpecValue == Init /\ [][NextValue]_vars

\* check_parameter_value called with every value text, on lookups without
\* and with a current value.
NextValueCheck ==
  \E item \in ValueItems(ValueTexts) : \E current_items \in {{}, {<<<<2, 2, 1>>, 1>>}} :
    nops < MaxStoreOps /\ CheckParameterValue(item, current_items)

SpecValueCheck == Init /\ [][NextValueCheck]_vars

\* Checked adds of scenario alternatives, one item per call, on the store.
NextRank ==
  \E item \in RankItems : \E strict \in BOOLEAN :
    nops < MaxStoreOps /\ AddScenarioAlternatives(item, strict)

SpecRank == Init /\ [][NextRank]_vars

\* The staging session of Spec with commits that fail.
NextRecover ==
  \/ Next
  \/ \E comment \in Comments : \E at \in FailurePoints :
       nops < MaxOps /\ commit_session_failing(comment, at)

SpecRecover == Init /\ [][NextRecover]_vars

\* ------------------------------------------------------------ properties
RetIds(l) == {it.id : it \in l.ret}

\* The tracked state an aborted call must leave alone.
Staged == <<shadow, next_id, added_item_id, updated_item_id, dirty_item_id, removed_item_id>>

\* C3: for every kind, add_*(B, strict=True) on a batch B of N items that all
\* pass the check returns exactly N new items with N fresh, pairwise-distinct
\* ids, and the view then holds the pre-existing items plus these N.
C3_StrictAddReturnsAll ==
  (last.op = "add" /\ last.api = "add_many" /\ last.strict /\ last.raised = "none")
    => /\ Cardinality(last.ret) = Len(last.batch)
       /\ Cardinality(last.ids) = Len(last.batch)
       /\ RetIds(last) = last.ids
       /\ last.ids \cap {it.id : it \in last.pre} = {}
       /\ View(last.kind) = last.pre \cup last.ret

\* C4: get-or-add is idempotent: the same single item handed twice in a row
\* to get_or_add_<kind> (or to add_*(item, return_dups=True)) returns the same
\* id both times, and the second call allocates no id and creates no row.
IsGetOrAdd(l) ==
  /\ l.op = "add"
  /\ Len(l.batch) = 1
  /\ \/ l.api = "get_or_add"
     \/ l.api \in {"add_many", "add_parameters"} /\ l.return_dups /\ ~l.strict

C4_GetOrAddIdempotent ==
  [][(/\ IsGetOrAdd(last) /\ last.raised = "none"
      /\ nops' = nops + 1
      /\ IsGetOrAdd(last')
      /\ last'.api = last.api /\ last'.kind = last.kind /\ last'.batch = last.batch)
     => /\ last'.raised = "none"
        /\ RetIds(last') = RetIds(last)
        /\ last'.ids = {}
        /\ shadow' = shadow]_vars

\* C5: a strict add (add_*(..., strict=True) or a single-item add_<kind>) of a
\* batch with at least one violating item raises an integrity error and
\* changes nothing: no shadow row, no id allocated, tracked sets unchanged.
IsStrictAdd(l) ==
  /\ l.op = "add"
  /\ \/ l.api = "add_one"
     \/ l.api \in {"add_many", "add_parameters"} /\ l.strict

\* Some item of the batch is rejected when the batch is checked item by item
\* against the current state.
HasViolation(k, batch) ==
  LET chk == check_for_insert(k, batch, FALSE, CurrentItems(k, MergedRows(k)),
                              IdsOf(MergedRows("object_class")), <<>>, <<>>)
  IN chk.raised # "none" \/ chk.log # <<>>

C5_StrictAborts ==
  [][(nops' = nops + 1 /\ IsStrictAdd(last') /\ HasViolation(last'.kind, last'.batch))
     => /\ last'.raised = "SpineIntegrityError"
        /\ last'.ids = {}
        /\ Staged' = Staged]_vars

\* C6: add_*(B, strict=False, return_dups=False) drops no violation: one log
\* entry per rejected item, every other item staged and returned, so
\* returned items + log entries = size of B.
C6_CollectAccountsForAll ==
  (last.op = "add" /\ last.api = "add_many" /\ ~last.strict /\ ~last.return_dups)
    => /\ last.raised = "none"
       /\ RetIds(last) = last.ids
       /\ Cardinality(last.ret) + Len(last.log) = Len(last.batch)

\* C7: adding one item whose name is that of an existing item of a kind with
\* globally unique names, with strict=False and return_dups=False, returns no
\* new item and exactly one log entry, whose id is the existing item's id.
C7_DuplicateNameLogged ==
  (/\ last.op = "add" /\ last.api = "add_many" /\ ~last.strict /\ ~last.return_dups
   /\ last.kind \in GloballyUnique
   /\ Len(last.batch) = 1
   /\ \E it \in last.pre : it.name = last.batch[1].name)
    => /\ last.raised = "none"
       /\ last.ret = {}
       /\ last.ids = {}
       /\ Len(last.log) = 1
       /\ \E it \in last.pre : it.name = last.batch[1].name /\ last.log[1] = it.id

C7_Witness ==
  /\ last.op = "add" /\ last.api = "add_many" /\ ~last.strict /\ ~last.return_dups
  /\ last.kind = "alternative"
  /\ last.batch = <<Item("Base", None, <<>>, None)>>
  /\ last.ret = {}
  /\ last.log = <<1>>

\* C1: the id sets returned by the successful add calls of two writers on the
\* same table are disjoint, under every interleaving of the steps of the calls.
C1_WritersGetDisjointIds ==
  \A v, w \in Writers : v # w => writer[v].returned \cap writer[w].returned = {}

StagedItems(l) ==
  IF l.op = "add" THEN {it \in l.ret : it.id \in l.ids}
  ELSE {[id |-> l.batch[i].id, name |-> l.batch[i].name, cls |-> l.batch[i].cls,
         value_list |-> <<>>] : i \in DOMAIN l.batch}

Durable(table) == {r \in table : r.durable}

C14_UpdateOfRemovedRejected ==
  [][\A k \in Kinds : \A id \in removed_item_id[k] :
       (last'.op = "update" /\ last'.kind = k /\ \E i \in DOMAIN last'.batch : last'.batch[i].id = id) =>
          /\ last'.raised # "none"
          /\ shadow'[k] = shadow[k]
          /\ id \notin (dirty_item_id'[k] \cup updated_item_id'[k]) \ (dirty_item_id[k] \cup updated_item_id[k])
          /\ id \notin IdsOf(View(k)')]_vars

\* C13: in a staging session without removes, a read of the view of table k
\* through the staging instance returns exactly the shadow rows of k plus the
\* original rows of k whose id is not dirty, every id at most once, whatever
\* adds and updates were issued before the read.
C13_ReadsReflectWrites ==
  [][\A k \in Kinds :
       (last'.op = "query" /\ last'.kind = k /\ removed_item_id[k] = {}) =>
          /\ last'.ret = View(k)'
          /\ \A x, y \in last'.ret : x.id = y.id => x = y]_vars

\* The alternatives of scenario s, and the rank of alternative a in s.
AlternativesOf(s) ==
  {sa.alternative_id : sa \in {sa \in Merged("scenario_alternative") : sa.scenario_id = s}}

RankIn(s, a) ==
  (CHOOSE sa \in Merged("scenario_alternative") :
     sa.scenario_id = s /\ sa.alternative_id = a).rank

\* The values of the pair (entity e, parameter definition d).
ValuesOf(rows, e, d) == {r \in rows : r.entity_id = e /\ r.parameter_definition_id = d}

\* The rows of the parameter value view that the filtered instance serves.
ServedRows == ViewRows(memo, maker, "parameter_value_sq")

\* The filter of maker mk was applied to a mapping without a value filter.
OnUnfiltered(mk) == \A i \in DOMAIN mk.original : mk.original[i].view # "parameter_value_sq"

\* C15: while a scenario filter for scenario S, applied to a mapping without
\* a value filter, is installed, the parameter value view holds, for every (entity, parameter definition) pair with a
\* value under an alternative of S, exactly the value of the alternative
\* ranked highest in S among those, and no row for any other pair.
C15_ScenarioFilterResolves ==
  (maker["parameter_value_sq"].mode = "scenario" /\ OnUnfiltered(maker["parameter_value_sq"])) =>
    LET s == maker["parameter_value_sq"].scenario
    IN \A e \in Entities, d \in Entities :
         LET cand == {r \in ValuesOf(Merged("parameter_value"), e, d) :
                        r.alternative_id \in AlternativesOf(s)}
             top == {r \in cand : \A o \in cand :
                                    RankIn(s, o.alternative_id) <= RankIn(s, r.alternative_id)}
         IN ValuesOf(ServedRows, e, d) = top

\* The ids of the alternatives that the entries of list L name.
ResolvedFrom(L) ==
  {r.id : r \in {r \in Merged("alternative") :
                   \E i \in DOMAIN L : \/ L[i].type = "str" /\ L[i].name = r.name
                                       \/ L[i].type = "int" /\ L[i].id = r.id}}

\* C16: when apply_alternative_filter_to_parameter_value_sq(db_map, L) has
\* returned on a mapping that had no value filter, the parameter value view holds exactly the rows of the
\* unfiltered view whose alternative is one of those resolved from L, and no
\* row for an empty L.
C16_AlternativeFilterRestricts ==
  [][(/\ last'.op = "apply_alternative_filter" /\ last'.raised = "none"
      /\ OnUnfiltered(maker'["parameter_value_sq"])) =>
       /\ ServedRows' = {r \in Merged("parameter_value") :
                           r.alternative_id \in ResolvedFrom(last'.batch)}
       /\ last'.batch = <<>> => ServedRows' = {}]_vars

\* The rows a filter leaves of a set of parameter value rows.
FilteredBy(mk, rows) ==
  CASE mk.mode = "scenario" -> scenario_filtered(rows, mk.scenario)
    [] mk.mode = "alternative" -> alternative_filtered(rows, mk.alternatives)
    [] OTHER -> rows

\* C17: when a scenario or alternative filter has been installed on an
\* instance that holds staged, uncommitted rows and had no value filter, the parameter value view
\* holds what the filter leaves of the committed and the staged values
\* together, with staged alternatives, scenarios and scenario alternatives
\* resolved like committed ones.
C17_FilterOnStagedData ==
  [][(/\ last'.op \in {"apply_scenario_filter", "apply_alternative_filter"}
      /\ last'.raised = "none"
      /\ OnUnfiltered(maker'["parameter_value_sq"])
      /\ \E t \in DOMAIN diff_tables : diff_tables[t] # {}) =>
       ServedRows' = FilteredBy(maker'["parameter_value_sq"],
                                tables["parameter_value"] \cup diff_tables["parameter_value"])]_vars

\* The entries of list L that name no alternative of the store.
Unresolved(L) ==
  {L[i] : i \in {i \in DOMAIN L :
                   ~\E r \in Merged("alternative") :
                      \/ L[i].type = "str" /\ L[i].name = r.name
                      \/ L[i].type = "int" /\ L[i].id = r.id}}

\* C19: apply_alternative_filter_to_parameter_value_sq given a list with
\* entries that resolve to no alternative fails with one error that reports
\* every unresolved name and every unresolved id of the list.
C19_AllUnresolvedReported ==
  [][(last'.op = "apply_alternative_filter" /\ Unresolved(last'.batch) # {}) =>
       /\ last'.raised = "SpineDBAPIError"
       /\ last'.ret = Unresolved(last'.batch)]_vars

\* The layers of view x in expression q are those the maker mk of x builds.
LayersOf(q, x) == {q[i] : i \in {i \in DOMAIN q : q[i].view = x}}

BuiltFrom(q, x, mk) ==
  LayersOf(q, x) = LayersOf(IF mk.mode = "default" THEN <<>> ELSE make_replaced(x, mk), x)

\* C20: when a replacement maker of view x has been installed, the next read
\* of x and of every view that depends on x returns a view built from the
\* replacement, whether or not these views were read before.
C20_OverrideInvalidates ==
  [][\A x \in Overridable :
       (\/ last'.op = "override" /\ last'.kind = x
        \/ /\ last'.op \in {"apply_scenario_filter", "apply_alternative_filter"}
           /\ last'.raised = "none" /\ x = "parameter_value_sq") =>
         \A v \in {x} \cup DependsOn(x) : BuiltFrom(Expr(memo', maker', v), x, maker'[x])]_vars

\* The value filter that maker mk applies.
FilterOf(mk) == [mode |-> mk.mode, scenario |-> mk.scenario, alternatives |-> mk.alternatives]

\* The mapping without a value filter and without memoized views.
Unfiltered == [memo |-> [v \in SqAttrs |-> NotBuilt],
               maker |-> [maker EXCEPT !["parameter_value_sq"] = DefaultMaker]]

\* The rows of the parameter value view after the filter call (op, args) on
\* the mapping without a value filter.
AppliedAlone(op, args) ==
  LET a == IF op = "apply_scenario_filter"
           THEN apply_scenario_filter_to_parameter_value_sq(Unfiltered.memo, Unfiltered.maker, args[1])
           ELSE apply_alternative_filter_to_parameter_value_sq(Unfiltered.memo, Unfiltered.maker, args)
  IN ViewRows(a.memo, a.maker, "parameter_value_sq")

MemberClassesDiffer(wide_item) ==
  /\ wide_item.class_id \in DOMAIN relationship_classes
  /\ \A i \in DOMAIN wide_item.object_id_list : wide_item.object_id_list[i] \in DOMAIN objects
  /\ [i \in DOMAIN wide_item.object_id_list |-> objects[wide_item.object_id_list[i]].class_id]
       # relationship_classes[wide_item.class_id].object_class_id_list

\* C22: an add of a relationship whose member classes differ from the
\* member-class sequence of its class is rejected with an integrity error
\* (raised when strict, logged otherwise) and stages no row, whatever
\* relationships the store holds.
C22_MismatchedRelationshipRejected ==
  (/\ last.op = "add" /\ last.kind = "relationship"
   /\ MemberClassesDiffer(last.batch[1])) =>
     /\ last.strict => last.raised = "SpineIntegrityError"
     /\ ~last.strict => last.raised = "none" /\ Len(last.log) = 1
     /\ last.ids = {}
     /\ db.rows["relationship"] = last.pre

\* C23: check_object_class, check_object, check_wide_relationship_class and
\* check_wide_relationship reject an item whose explicit type_id differs from
\* the type expected for its kind with SpineIntegrityError, whatever the dicts
\* of current items hold.
C23_WrongTypeIsIntegrityError ==
  (/\ last.op = "check"
   /\ last.kind \in {"check_object_class", "check_object", "check_wide_relationship_class",
                     "check_wide_relationship"}
   /\ last.batch[1].type_id \notin {None, ExpectedType(last.kind)}) =>
     last.raised = "SpineIntegrityError"

\* The last item of batch b that names id.
LastOf(b, id) == b[MaxOf({i \in DOMAIN b : b[i].id = id})]

\* C24: over the add and update calls of one staging session, with any
\* batches: an update of an id already in added or updated overwrites the
\* shadow row of the id and changes no tracked set for it; an update of any
\* other id inserts one shadow row for it and puts the id into dirty and
\* updated; and shadow storage holds at most one row per primary key.
C24_UpdateOverwritesOrInsertsOnce ==
  [][\A k \in Kinds :
       /\ (last'.op = "update" /\ last'.kind = k /\ nops' = nops + 1) =>
            \A id \in {last'.batch[i].id : i \in DOMAIN last'.batch} :
              IF id \in added_item_id[k] \cup updated_item_id[k]
              THEN /\ {r \in shadow'[k] : r.id = id} = {LastOf(last'.batch, id)}
                   /\ (id \in added_item_id'[k]) = (id \in added_item_id[k])
                   /\ (id \in updated_item_id'[k]) = (id \in updated_item_id[k])
                   /\ (id \in dirty_item_id'[k]) = (id \in dirty_item_id[k])
              ELSE /\ Cardinality({r \in shadow'[k] : r.id = id}) = 1
                   /\ id \in dirty_item_id'[k]
                   /\ id \in updated_item_id'[k]
       /\ \A r, t \in shadow'[k] : (r.id = t.id /\ r.idx = t.idx) => r = t]_vars


\* The view memoized for attribute v reads table t: through the tables its
\* default query selects from, or through the scenario alternatives that an
\* installed scenario filter joins to it.
ReadsTable(view, v, t) ==
  /\ view.built
  /\ \/ t \in TablesOf(v)
     \/ /\ t = "scenario_alternative"
        /\ \E i \in DOMAIN view.q : view.q[i].mode = "scenario"

\* C25: an add to table T resets every memoized view whose query reads T,
\* directly, through another view or through an installed filter, and leaves
\* every other memoized view as it was.
C25_WriteInvalidatesExactly ==
  [][last'.op = "add_items" =>
       \A v \in SqAttrs :
         IF ReadsTable(memo[v], v, last'.kind) THEN memo'[v] = NotBuilt
         ELSE memo'[v] = memo[v]]_vars


\* C26: an add call on a table whose counter is not persisted yet allocates
\* consecutive ids starting at max(id of the original table) + 1, or at 1 for
\* an empty table; the counter it persists is one past the last id, and the
\* first id is greater than every id of the original and the shadow table.
C26_FallbackStartsAboveExisting ==
  [][(last'.op = "add" /\ last'.raised = "none" /\ next_id[last'.kind] = None) =>
       LET k == last'.kind
           start == IF orig[k] = {} THEN 1 ELSE MaxOf(IdsOf(orig[k])) + 1
           n == Cardinality(last'.ids)
       IN /\ last'.ids = start .. (start + n - 1)
          /\ next_id'[k] = start + n
          /\ \A r \in orig[k] \cup shadow[k] : r.id < start]_vars

\* An add without a persisted counter has allocated ids above the rows of a
\* table that was not empty.
C26_Witness ==
  /\ last.op = "add" /\ last.raised = "none" /\ last.ids # {}
  /\ \E r \in orig[last.kind] : \A i \in last.ids : r.id < i
  /\ next_id[last.kind] = MaxOf(last.ids) + 1
  /\ \E r \in orig[last.kind] : r.id + 1 \in last.ids


\* C27: when the flush of the NextId row fails because another writer holds
\* the row, next_id_with_lock raises to the caller of the add call: the call
\* is over, it is not started again, it returns no ids, writes no rows and
\* leaves the counter and the other writer's hold of the row as they were.
C27_FlushFailureRaisesWithoutRetry ==
  [][\A w \in Writers :
       (writer[w].pc = "flush" /\ writer'[w] # writer[w] /\ row_lock \notin {"free", w}) =>
         /\ writer'[w].raised
         /\ writer'[w].pc = "idle"
         /\ writer'[w].calls = writer[w].calls
         /\ writer'[w].returned = writer[w].returned
         /\ writer'[w].diff = writer[w].diff
         /\ writer'[w].new_item_id = writer[w].new_item_id
         /\ writer'[w].pending = {}
         /\ next_id' = next_id
         /\ row_lock' = row_lock]_vars

\* A writer's add call has been raised out of while the other writer, in the
\* middle of its own call, holds the row.
C27_Witness ==
  \E w \in Writers :
    /\ writer[w].raised /\ writer[w].pc = "idle" /\ writer[w].returned = {}
    /\ row_lock \in Writers \ {w}
    /\ writer[row_lock].pc \in {"choose", "insert", "write", "commit"}


\* C28: after any sequence of checked adds of parameter values, the store
\* holds at most one value per (entity_id, parameter_definition_id,
\* alternative_id) and the entity of every value is of the class of the
\* value's definition; a candidate that would break either is rejected, and
\* for a taken triple the error carries the id of the value that holds it.
C28_OneValuePerTripleOfMatchingClass ==
  LET rows == db.rows["parameter_value"]
      item == last.batch[1]
      Taken == {r \in last.pre : /\ r.entity_id = item.entity_id
                                 /\ r.parameter_definition_id = item.parameter_definition_id
                                 /\ r.alternative_id = item.alternative_id}
      Mismatch == /\ item.entity_id \in DOMAIN objects
                  /\ item.parameter_definition_id \in DOMAIN parameter_definitions
                  /\ objects[item.entity_id].class_id #
                       parameter_definitions[item.parameter_definition_id].entity_class_id
  IN /\ \A r1, r2 \in rows :
          (/\ r1.entity_id = r2.entity_id
           /\ r1.parameter_definition_id = r2.parameter_definition_id
           /\ r1.alternative_id = r2.alternative_id) => r1 = r2
     /\ \A r \in rows :
          objects[r.entity_id].class_id = parameter_definitions[r.parameter_definition_id].entity_class_id
     /\ (last.op = "add" /\ last.kind = "parameter_value" /\ (Taken # {} \/ Mismatch)) =>
          /\ last.ids = {}
          /\ rows = last.pre
          /\ last.log # <<>>
          /\ IF last.strict THEN last.raised = "SpineIntegrityError" ELSE last.raised = "none"
          /\ check_parameter_value(item, {}, parameter_definitions, objects,
                                   parameter_value_lists, store_alternative_ids) = Ok =>
                last.log = <<(CHOOSE r \in Taken : TRUE).id>>

\* A second value for a triple that the store already holds has been
\* rejected with the id of the first, next to a value of another triple.
C28_Witness ==
  /\ last.op = "add" /\ last.kind = "parameter_value"
  /\ Cardinality(db.rows["parameter_value"]) = 2
  /\ \E r \in db.rows["parameter_value"] :
       /\ r.entity_id = last.batch[1].entity_id
       /\ r.parameter_definition_id = last.batch[1].parameter_definition_id
       /\ r.alternative_id = last.batch[1].alternative_id
       /\ last.log = <<r.id>>
       /\ r \in last.pre


\* The entries of value list l.
EntriesOf(l) == {parameter_value_list_values[l][i] : i \in DOMAIN parameter_value_list_values[l]}

\* C29: for a candidate that passes every other rule, check_parameter_value
\* accepts a non-null value of a definition with a value list exactly when
\* the value equals one of the entries of the list, rejects it with
\* SpineIntegrityError otherwise, and accepts any value of a definition
\* without a value list.
C29_ValueListMembership ==
  (last.op = "check" /\ last.kind = "check_parameter_value") =>
    LET item == last.batch[1]
        PassesOtherwise ==
          /\ from_database(item.value) = "ok"
          /\ check_parameter_value([item EXCEPT !.value = NoValue], last.pre,
                                   parameter_definitions, objects, parameter_value_lists,
                                   store_alternative_ids) = Ok
        list_id == parameter_definitions[item.parameter_definition_id].parameter_value_list_id
    IN (item.value # NoValue /\ PassesOtherwise) =>
         IF list_id \in DOMAIN parameter_value_list_values
         THEN IF item.value \in EntriesOf(list_id) THEN last.raised = "none"
              ELSE last.raised = "SpineIntegrityError"
         ELSE last.raised = "none"


\* C30: after any sequence of adds of scenario alternatives that passed
\* check_scenario_alternative, every rank is a positive integer, no two rows
\* share (scenario_id, rank) or (scenario_id, alternative_id), and a
\* candidate whose rank is taken in its scenario is reported as an integrity
\* error and not stored.
C30_RanksPositiveAndUnique ==
  LET rows == db.rows["scenario_alternative"]
  IN /\ \A r \in rows : r.rank >= 1
     /\ \A r1, r2 \in rows :
          (r1.scenario_id = r2.scenario_id
           /\ (r1.rank = r2.rank \/ r1.alternative_id = r2.alternative_id)) => r1 = r2
     /\ (/\ last.op = "add" /\ last.kind = "scenario_alternative"
         /\ \E r \in last.pre : r.scenario_id = last.batch[1].scenario_id
                                /\ r.rank = last.batch[1].rank) =>
          /\ last.ids = {} /\ rows = last.pre /\ last.log # <<>>
          /\ last.raised = IF last.strict THEN "SpineIntegrityError" ELSE "none"


C31_Witness ==
  /\ last.op = "add" /\ last.kind = "object" /\ Len(last.batch) = 2
  /\ last.batch[1].name = last.batch[2].name
  /\ last.batch[1].cls # last.batch[2].cls
  /\ Cardinality(last.ids) = 2
  /\ \E a, b \in View("object") : a.name = b.name /\ a.cls # b.cls

C32_EmptyNameRejected ==
  (last.op = "check" /\ last.kind \in CheckFunctions /\ last.batch[1].name = "") =>
    last.raised = "SpineIntegrityError"


AbsentScenario(s) ==
  ~\E r \in Merged("scenario") :
      \/ s.type = "str" /\ r.name = s.name
      \/ s.type = "int" /\ r.id = s.id

\* C34: apply_scenario_filter_to_parameter_value_sq called with a scenario
\* name or id that the merged scenario view does not hold raises and installs
\* nothing: the makers are as before, and the parameter value view and the
\* views derived from it return the rows they returned before the call,
\* filtered by whatever filter was installed earlier.
C34_UnknownScenarioInstallsNothing ==
  [][(last'.op = "apply_scenario_filter" /\ AbsentScenario(last'.batch[1])) =>
       /\ last'.raised = "SpineDBAPIError"
       /\ maker' = maker
       /\ \A v \in {"parameter_value_sq"} \cup Dependent :
            ViewRows(memo', maker', v) = ViewRows(memo, maker, v)]_vars

\* The filter of an unknown scenario has been refused on a mapping that
\* holds parameter values and on which a filter was installed earlier.
C34_Witness ==
  /\ last.op = "apply_scenario_filter" /\ last.raised = "SpineDBAPIError"
  /\ AbsentScenario(last.batch[1])
  /\ maker["parameter_value_sq"].mode # "default"
  /\ maker["parameter_value_sq"] = last.pre.maker
  /\ last.pre.rows # {}
  /\ ViewRows(memo, maker, "parameter_value_sq") = last.pre.rows


\* C35: when the bulk insert of an add call fails with a storage error, the
\* call raises and leaves the allocator and the staging state as they were
\* before the call: the persisted counter is not advanced, no row of the
\* batch is staged, new_item_id is unchanged and nothing is returned, so the
\* next call starts from the same counter.
C35_FailedInsertLeavesNoTrace ==
  [][\A w \in Writers :
       (writer[w].pc = "insert" /\ writer'[w].pc = "idle") =>
         /\ writer'[w].raised
         /\ next_id' = next_id
         /\ first_id(next_id'[AllocKind], orig'[AllocKind]) =
              first_id(next_id[AllocKind], orig[AllocKind])
         /\ writer'[w].diff = writer[w].diff
         /\ writer'[w].pending = {}
         /\ writer'[w].new_item_id = writer[w].new_item_id
         /\ writer'[w].returned = writer[w].returned
         /\ row_lock' = "free"]_vars

\* A writer working alone has had one add call succeed and one fail in its
\* bulk insert; the ids it holds are those of the call that succeeded.
C35_Witness ==
  \E w \in Writers :
    /\ writer[w].raised /\ writer[w].pc = "idle" /\ writer[w].calls = 2
    /\ \A v \in Writers \ {w} : writer[v].calls = 0
    /\ writer[w].returned # {}
    /\ writer[w].diff = writer[w].returned
    /\ next_id[AllocKind] = MaxOf(writer[w].returned) + 1


\* C36: once a scenario or alternative filter has been installed, the read
\* of the parameter value view that follows an add of a parameter value
\* returns what the filter leaves of the merged parameter values, the added
\* one included.
C36_FilterStaysCurrent ==
  [][(/\ last'.op = "add_items" /\ last'.kind = "parameter_value"
      /\ maker["parameter_value_sq"].mode \in {"scenario", "alternative"}
      /\ OnUnfiltered(maker["parameter_value_sq"])) =>
       ServedRows' = FilteredBy(maker'["parameter_value_sq"], Merged("parameter_value")')]_vars


\* C37: apply_alternative_filter_to_parameter_value_sq returns without an
\* error whenever every name and every id of its list resolves to an
\* alternative, a repeated name or id included, and the parameter value view
\* then holds the rows whose alternative is one of the distinct alternatives
\* resolved from the list.
C37_RepeatedEntriesAccepted ==
  [][(last'.op = "apply_alternative_filter" /\ Unresolved(last'.batch) = {}) =>
       /\ last'.raised = "none"
       /\ OnUnfiltered(maker'["parameter_value_sq"]) =>
            ServedRows' = {r \in Merged("parameter_value") :
                             r.alternative_id \in ResolvedFrom(last'.batch)}]_vars


\* The Commit rows of the session in progress: written, not yet committed.
Placeholders(table) == {r \in table : ~r.durable}

RankedAbove(rows, sa) == {n \in rows : n.scenario_id = sa.scenario_id /\ n.rank > sa.rank}

\* C39: in linked_scenario_alternative_sq over stored scenario alternatives
\* with unique positive ranks, contiguous or not, every scenario alternative has one
\* row; next_alternative_id is null exactly for the highest-ranked one of its
\* scenario, and for any other it is the alternative with the next higher
\* rank in the same scenario.
C39_NextIsNextHigherRank ==
  LET rows == db.rows["scenario_alternative"]
      linked == linked_scenario_alternative_sq(rows)
  IN (\A r \in rows : r.rank >= 1) =>
     \A sa \in rows :
       \E l \in linked :
         /\ l.id = sa.id
         /\ \A l2 \in linked : l2.id = sa.id => l2 = l
         /\ IF RankedAbove(rows, sa) = {} THEN l.next_alternative_id = None
            ELSE \E n \in RankedAbove(rows, sa) :
                   /\ \A m \in RankedAbove(rows, sa) : n.rank <= m.rank
                   /\ l.next_alternative_id = n.alternative_id


\* The database values of the wide row x, one per stored value, in the order
\* of value_index.
StoredValues(x) == [i \in DOMAIN x.value_list |-> DatabaseText(x.value_list[i])]

\* C40: for every value list that passed check_wide_parameter_value_list and
\* was added, export_parameter_value_lists returns the pair of its name and
\* the list of its stored values, one element per value, and nothing else;
\* and the split of the value_list column that check_parameter_value makes
\* recovers the same values.
C40_ValueListsRoundTrip ==
  LET lists == View("parameter_value_list")
  IN /\ export_parameter_value_lists(lists) = {<<x.name, StoredValues(x)>> : x \in lists}
     /\ \A x \in lists : split(wide_value_list(x), ";") = StoredValues(x)

====
